---- MODULE Spec2Model ----
(***************************************************************************)
(* Budget threshold monitoring and alert dispatch of the Smart Finance     *)
(* Management System: checkBudgetThresholdsService / sendBudgetAlertService *)
(* (backend alert service), the budget service and the mongoose models.    *)
(*                                                                         *)
(* Dates are kept at the granularity the code uses them: a date is the     *)
(* index of its calendar month, so  createdAt >= startOfMonth(now)  is     *)
(* createdAt >= now  and a date lies in [startOfMonth, endOfMonth] exactly *)
(* when it equals the month.  Collections are the documents they hold; the *)
(* alert collection is kept in creation order.  Each await of a service is *)
(* a separate step of the process that runs it.                            *)
(***************************************************************************)
EXTENDS Integers, Sequences, FiniteSets, Bags, TLC

(* ---------------- bounds of the model ---------------- *)
MaxTx       == 2    \* transactions ever recorded
MaxMonth    == 1    \* months the clock can advance
MaxChecks   == 2    \* threshold checks ever started
MaxFailures == 1    \* sendEmail calls that fail
MaxAlerts   == 56      \* alert rows in the ledger the alert queries read

(* ---------------- JavaScript Number arithmetic (IEEE-754 binary64) ------ *)
(* A natural of any size is a bit sequence, most significant bit first,    *)
(* without leading zero (zero is <<>>); inside a division it is a sequence *)
(* of limbs, least significant first.  A double is stored as               *)
(* [hi, lo, e]: mantissa hi * 2^27 + lo (53 bits, or 0), value mant * 2^e. *)
LimbBits  == 15
LimbBase  == 32768
Precision == 53
LoBits    == 27

RECURSIVE Bits(_)
Bits(n) == IF n = 0 THEN <<>> ELSE Append(Bits(n \div 2), n % 2)

RECURSIVE BitsVal(_)
BitsVal(a) == IF a = <<>> THEN 0 ELSE 2 * BitsVal(SubSeq(a, 1, Len(a) - 1)) + a[Len(a)]

Zeros(k) == [i \in 1..k |-> 0]

Strip(a) ==
    IF \A i \in 1..Len(a) : a[i] = 0 THEN <<>>
    ELSE LET f == CHOOSE i \in 1..Len(a) : a[i] = 1 /\ \A j \in 1..(i-1) : a[j] = 0
         IN  SubSeq(a, f, Len(a))

Shl(a, k) == IF a = <<>> THEN <<>> ELSE a \o Zeros(k)

BigGE(a, b) ==
    \/ Len(a) > Len(b)
    \/ /\ Len(a) = Len(b)
       /\ \/ a = b
          \/ \E i \in 1..Len(a) : a[i] > b[i] /\ \A j \in 1..(i-1) : a[j] = b[j]

ToLimbs(a, nl) ==
    [i \in 1..nl |->
        LET top == Len(a) - LimbBits * (i - 1)
            bot == top - LimbBits + 1
        IN  IF top < 1 THEN 0 ELSE BitsVal(SubSeq(a, IF bot < 1 THEN 1 ELSE bot, top))]

RECURSIVE FromLimbsRaw(_, _)
FromLimbsRaw(l, i) ==
    IF i > Len(l) THEN <<>>
    ELSE LET b == Bits(l[i]) IN FromLimbsRaw(l, i + 1) \o Zeros(LimbBits - Len(b)) \o b

FromLimbs(l) == Strip(FromLimbsRaw(l, 1))

NumLimbs(a) == (Len(a) + LimbBits - 1) \div LimbBits

RECURSIVE LimbMul(_, _, _, _)
LimbMul(l, c, i, carry) ==
    IF i > Len(l) THEN IF carry = 0 THEN <<>> ELSE <<carry>>
    ELSE LET t == l[i] * c + carry
         IN  <<t % LimbBase>> \o LimbMul(l, c, i + 1, t \div LimbBase)

BigMulSmall(a, c) == FromLimbs(LimbMul(ToLimbs(a, NumLimbs(a)), c, 1, 0))

LimbGE(la, lb) ==
    \/ la = lb
    \/ \E i \in 1..Len(la) : la[i] > lb[i] /\ \A j \in (i+1)..Len(la) : la[j] = lb[j]

RECURSIVE LimbSub(_, _, _, _)
LimbSub(la, lb, i, borrow) ==
    IF i > Len(la) THEN <<>>
    ELSE LET t == la[i] - lb[i] - borrow
         IN  IF t < 0 THEN <<t + LimbBase>> \o LimbSub(la, lb, i + 1, 1)
                      ELSE <<t>> \o LimbSub(la, lb, i + 1, 0)

RECURSIVE LimbDouble(_, _, _)
LimbDouble(la, i, carry) ==
    IF i > Len(la) THEN <<>>
    ELSE LET t == 2 * la[i] + carry
         IN  <<t % LimbBase>> \o LimbDouble(la, i + 1, t \div LimbBase)

(* one step of binary long division; st = <<quotient bits, remainder limbs>> *)
DivStep(st, bit, d) ==
    LET r == LimbDouble(st[2], 1, bit)
    IN  IF LimbGE(r, d)
        THEN << Append(st[1], 1), LimbSub(r, d, 1, 0) >>
        ELSE << IF st[1] = <<>> THEN <<>> ELSE Append(st[1], 0), r >>

RECURSIVE DivRange(_, _, _, _, _)
DivRange(n, d, st, i, j) ==
    IF i > j THEN st
    ELSE IF i = j THEN DivStep(st, n[i], d)
    ELSE LET mid  == (i + j) \div 2
             left == DivRange(n, d, st, i, mid)
         IN  IF Len(left) = 2 THEN DivRange(n, d, left, mid + 1, j) ELSE left

(* <<quotient bits, the remainder is not zero>> of n / d *)
BigDivMod(n, d) ==
    LET nl == NumLimbs(d) + 1
        dl == ToLimbs(d, nl)
        st == DivRange(n, dl, << <<>>, [i \in 1..nl |-> 0] >>, 1, Len(n))
    IN  << st[1], \E i \in 1..nl : st[2][i] # 0 >>

BigInc(a) ==
    IF \A i \in 1..Len(a) : a[i] = 1 THEN <<1>> \o Zeros(Len(a))
    ELSE LET z == CHOOSE i \in 1..Len(a) : a[i] = 0 /\ \A j \in (i+1)..Len(a) : a[j] = 1
         IN  [i \in 1..Len(a) |-> IF i < z THEN a[i] ELSE IF i = z THEN 1 ELSE 0]

FZero == [hi |-> 0, lo |-> 0, e |-> 0]
FPack(m, e) ==
    [hi |-> BitsVal(SubSeq(m, 1, Precision - LoBits)),
     lo |-> BitsVal(SubSeq(m, Precision - LoBits + 1, Precision)),
     e  |-> e]
FMant(fa) ==
    IF fa.hi = 0 /\ fa.lo = 0 THEN <<>>
    ELSE LET b == Bits(fa.lo) IN Strip(Bits(fa.hi) \o Zeros(LoBits - Len(b)) \o b)

(* the element of a one-element set: with a set constructor over a        *)
(* singleton it binds a value that is computed once                        *)
TheOne(S) == CHOOSE y \in S : TRUE

(* the double of the quotient bits q (Precision + 1 or + 2 of them), the   *)
(* remainder being zero or not, scaled by 2^e: ties to even                *)
RoundQuotient(q, inexact, e) ==
    LET drop == Len(q) - Precision
        mant == SubSeq(q, 1, Precision)
        up   == /\ q[Precision + 1] = 1
                /\ (inexact \/ (drop = 2 /\ q[Precision + 2] = 1) \/ q[Precision] = 1)
    IN  IF up
        THEN TheOne({ IF Len(m1) > Precision
                      THEN FPack(SubSeq(m1, 1, Precision), e + drop + 1)
                      ELSE FPack(m1, e + drop) : m1 \in { BigInc(mant) } })
        ELSE FPack(mant, e + drop)

(* the double nearest to (n / d) * 2^e, ties to even *)
RoundRat(n, d, e) ==
    IF n = <<>> THEN FZero
    ELSE TheOne(UNION {
            { RoundQuotient(qr[1], qr[2], e - k) :
                 qr \in { BigDivMod(IF k >= 0 THEN Shl(n, k) ELSE n,
                                    IF k >= 0 THEN d ELSE Shl(d, -k)) } } :
            k \in { Precision + 1 + Len(d) - Len(n) } })

FInt(n) == RoundRat(Bits(n), <<1>>, 0)
FDiv(fa, fb) == RoundRat(FMant(fa), FMant(fb), fa.e - fb.e)
FMulInt(fa, c) == RoundRat(BigMulSmall(FMant(fa), c), <<1>>, fa.e)
FIsZero(fa) == fa.hi = 0 /\ fa.lo = 0
(* fa >= t for a natural t *)
FGEInt(fa, t) ==
    IF FIsZero(fa) THEN t = 0
    ELSE IF fa.e >= 0 THEN BigGE(Shl(FMant(fa), fa.e), Bits(t))
    ELSE BigGE(FMant(fa), Shl(Bits(t), -fa.e))

(* fa > fb for doubles that are not negative *)
FGT(fa, fb) ==
    IF FIsZero(fa) THEN FALSE
    ELSE IF FIsZero(fb) THEN TRUE
    ELSE LET e0 == IF fa.e < fb.e THEN fa.e ELSE fb.e
             ma == Shl(FMant(fa), fa.e - e0)
             mb == Shl(FMant(fb), fb.e - e0)
         IN  ma # mb /\ BigGE(ma, mb)

(* Math.min(fa, c) for a natural c *)
FMinInt(fa, c) == IF FGEInt(fa, c) THEN FInt(c) ELSE fa

(* Math.round(fa) of a double that is not negative: floor(fa + 0.5) *)
FRound(fa) ==
    IF FIsZero(fa) THEN 0
    ELSE IF fa.e >= 0 THEN BitsVal(Shl(FMant(fa), fa.e))
    ELSE LET m    == FMant(fa)
             keep == Len(m) + fa.e
         IN  IF keep < 0 THEN 0
             ELSE BitsVal(SubSeq(m, 1, keep)) + m[keep + 1]

(* the bits of a - b for a >= b *)
BigSub(a, b) ==
    LET nl == NumLimbs(a)
    IN  FromLimbs(LimbSub(ToLimbs(a, nl), ToLimbs(b, nl), 1, 0))

(* fa - fb for doubles that are not negative: [neg, abs], abs the double   *)
(* nearest to the exact difference                                         *)
FSub(fa, fb) ==
    IF FIsZero(fb) THEN [neg |-> FALSE, abs |-> fa]
    ELSE IF FIsZero(fa) THEN [neg |-> TRUE, abs |-> fb]
    ELSE LET e0 == IF fa.e < fb.e THEN fa.e ELSE fb.e
             ma == Shl(FMant(fa), fa.e - e0)
             mb == Shl(FMant(fb), fb.e - e0)
         IN  IF BigGE(ma, mb)
             THEN [neg |-> FALSE, abs |-> RoundRat(BigSub(ma, mb), <<1>>, e0)]
             ELSE [neg |-> TRUE,  abs |-> RoundRat(BigSub(mb, ma), <<1>>, e0)]
(* ---------------- documents and identifiers ---------------- *)
NoId   == "none"     \* an absent ObjectId (undefined)
NoDoc  == [missing |-> TRUE]    \* findById / findOne found nothing (null)
NoDate == -1         \* an unset Date

UserIds      == {"u1", "u2", "u3"}
HouseholdIds == {"h1"}
BudgetIds    == {"b1", "b2", "b3", "b4"}
Procs        == {1, 2}

BudgetTypeEnum      == {"USER", "HOUSEHOLD"}
HouseholdRoleEnum   == {"OWNER", "MEMBER", "VIEWER"}
AlertTypeEnum       == {"EMAIL", "SMS"}
AlertStatusEnum     == {"PENDING", "SENT", "FAILED"}
AlertThresholdEnum  == {70, 90, 100}
TransactionTypeEnum == {"EXPENSE", "INCOME"}

(* the user collection: which addresses a user document carries.  The      *)
(* alert service reads it and nothing in these services writes it.         *)
UserModel ==
    [u \in UserIds |->
        CASE u = "u1" -> [email |-> TRUE,  phoneNumber |-> TRUE]
          [] u = "u2" -> [email |-> TRUE,  phoneNumber |-> FALSE]
          [] u = "u3" -> [email |-> FALSE, phoneNumber |-> FALSE]]

(* the transactions that can be recorded (amount in cents) *)
TxKinds ==
    { [userId |-> "u2", householdId |-> NoId, amount |-> 47500, type |-> "EXPENSE", status |-> "COMPLETED"],
      [userId |-> "u2", householdId |-> NoId, amount |-> 14500, type |-> "EXPENSE", status |-> "COMPLETED"],
      [userId |-> "u1", householdId |-> "h1", amount |-> 810,   type |-> "EXPENSE", status |-> "COMPLETED"],
      [userId |-> "u1", householdId |-> "h1", amount |-> 90,    type |-> "EXPENSE", status |-> "COMPLETED"],
      [userId |-> "u2", householdId |-> NoId, amount |-> 47500, type |-> "INCOME",  status |-> "COMPLETED"],
      [userId |-> "u1", householdId |-> "h1", amount |-> 810,   type |-> "EXPENSE", status |-> "PENDING"] }

InitBudgets ==
    [b \in BudgetIds |->
        CASE b = "b1" -> [type |-> "USER", userId |-> "u2", householdId |-> NoId,
                          monthlyLimit |-> 50000, name |-> "personal", isActive |-> TRUE]
          [] b = "b2" -> [type |-> "HOUSEHOLD", userId |-> NoId, householdId |-> "h1",
                          monthlyLimit |-> 900, name |-> "shared", isActive |-> TRUE]
          [] b = "b3" -> [type |-> "USER", userId |-> "u1", householdId |-> NoId,
                          monthlyLimit |-> 50000, name |-> "paused", isActive |-> FALSE]
          [] b = "b4" -> NoDoc]

(* ---------------- money ---------------- *)
RECURSIVE SumsUpTo(_)
SumsUpTo(k) ==
    IF k = 0 THEN {0}
    ELSE LET prev == SumsUpTo(k - 1)
         IN  prev \cup {s + t.amount : s \in prev, t \in TxKinds}

(* the amounts in cents the services can meet in this model *)
SpendDomain == SumsUpTo(MaxTx)
LimitDomain == {InitBudgets[b].monthlyLimit : b \in {"b1", "b2", "b3"}}

(* utils/format-currency: cents to dollars, amount / 100 *)
convertToDollarUnit(cents) == FDiv(FInt(cents), FInt(100))

(* (totalSpentThisMonth / budgetLimit) * 100 when budgetLimit > 0, else 0 *)
percentageUsedOf(spent, limit) ==
    IF ~FIsZero(limit) THEN FMulInt(FDiv(spent, limit), 100) ELSE FZero

(* a check that stores the percentage clamped to 100 *)
checkNumbersClamped(spentCents, limitCents) ==
    LET totalSpentThisMonth == convertToDollarUnit(spentCents)
        budgetLimit         == convertToDollarUnit(limitCents)
        percentageUsed      == percentageUsedOf(totalSpentThisMonth, budgetLimit)
    IN  [currentSpending |-> totalSpentThisMonth,
         budgetLimit     |-> budgetLimit,
         percentageUsed  |-> IF FGEInt(percentageUsed, 100) THEN FInt(100) ELSE percentageUsed]

(* the three numbers a check derives from the two cent amounts *)
checkNumbers(spentCents, limitCents) ==
    LET totalSpentThisMonth == convertToDollarUnit(spentCents)
        budgetLimit         == convertToDollarUnit(limitCents)
    IN  [currentSpending |-> totalSpentThisMonth,
         budgetLimit     |-> budgetLimit,
         percentageUsed  |-> percentageUsedOf(totalSpentThisMonth, budgetLimit)]

(* the arithmetic above, computed once for every pair of amounts *)
NumbersMemo == [s \in SpendDomain, l \in LimitDomain |-> checkNumbers(s, l)]

(* Math.min((totalSpentThisMonth / budgetLimit) * 100, 100) when           *)
(* budgetLimit > 0, else 0                                                 *)
clampedPercentageOf(totalSpentThisMonth, budgetLimit) ==
    IF ~FIsZero(budgetLimit)
    THEN TheOne({ FMinInt(p, 100) :
                    p \in { FMulInt(q, 100) : q \in { FDiv(totalSpentThisMonth, budgetLimit) } } })
    ELSE FZero

(* Math.round(percentageUsed * 100) / 100 *)
roundedToHundredths(percentageUsed) ==
    TheOne({ FDiv(n, FInt(100)) :
               n \in { FInt(k) : k \in { FRound(h) : h \in { FMulInt(percentageUsed, 100) } } } })

(* a status that takes remaining and overBudget from the clamped spend *)
statusOfClampedSpend(totalSpentThisMonth, budgetLimit) ==
    [totalSpentThisMonth |-> totalSpentThisMonth,
     budgetLimit         |-> budgetLimit,
     remaining           |-> IF FGT(totalSpentThisMonth, budgetLimit)
                             THEN [neg |-> FALSE, abs |-> FZero]
                             ELSE FSub(budgetLimit, totalSpentThisMonth),
     overBudget          |-> FALSE,
     percentageUsed      |-> TheOne({ roundedToHundredths(c) :
                                     c \in { clampedPercentageOf(totalSpentThisMonth, budgetLimit) } })]

(* the numbers of a BudgetStatus from the two dollar amounts: remaining,   *)
(* overBudget, and percentageUsed clamped and rounded                      *)
statusOfNumbers(totalSpentThisMonth, budgetLimit) ==
    [totalSpentThisMonth |-> totalSpentThisMonth,
     budgetLimit         |-> budgetLimit,
     remaining           |-> FSub(budgetLimit, totalSpentThisMonth),
     overBudget          |-> FGT(totalSpentThisMonth, budgetLimit),
     percentageUsed      |-> TheOne({ roundedToHundredths(c) :
                                     c \in { clampedPercentageOf(totalSpentThisMonth, budgetLimit) } })]

(* the BudgetStatus of a spend and a limit in cents *)
budgetStatusOf(spentCents, limitCents) ==
    CHOOSE st \in { statusOfNumbers(ts, bl) : ts \in { convertToDollarUnit(spentCents) },
                                               bl \in { convertToDollarUnit(limitCents) } } : TRUE

(* an inactive status that loses the limit *)
inactiveStatusWithoutLimit(limitCents) ==
    [totalSpentThisMonth |-> FZero,
     budgetLimit         |-> FZero,
     remaining           |-> [neg |-> FALSE, abs |-> FZero],
     overBudget          |-> FALSE,
     percentageUsed      |-> FZero]

(* the status of a budget that is not active: zero spend, nothing queried *)
inactiveStatusOf(limitCents) ==
    [totalSpentThisMonth |-> FZero,
     budgetLimit         |-> convertToDollarUnit(limitCents),
     remaining           |-> [neg |-> FALSE, abs |-> convertToDollarUnit(limitCents)],
     overBudget          |-> FALSE,
     percentageUsed      |-> FZero]
(* ---------------- state ---------------- *)
VARIABLES
    budgets,        \* BudgetModel: budget id -> document or NoDoc
    households,     \* HouseholdModel: household id -> document
    transactions,   \* TransactionModel: a bag of transaction documents
    alerts,         \* AlertModel: the alert rows in creation order
    now,            \* the clock: index of the current calendar month
    pc,             \* where each running service call stands
    loc,            \* the local variables of each running call
    sends,          \* every call of sendEmail / sendSMS made so far, in order
    checks,         \* number of checks started
    failures,       \* number of sendEmail calls that failed
    overlapped,     \* the budgets two checks of which have run at the same time
    reply           \* what the last status or alert request returned or threw

vars == <<budgets, households, transactions, alerts, now, pc, loc, sends, checks, failures,
          overlapped, reply>>

thresholds == <<70, 90, 100>>

NoReply == [op |-> "none"]

IdleLoc ==
    [budgetId |-> NoId, budget |-> NoDoc, monthStart |-> NoDate,
     totalSpentInCents |-> 0, metadata |-> NoDoc, usersToNotify |-> <<>>,
     ti |-> 0, ui |-> 0, user |-> NoDoc, sendOk |-> TRUE,
     \* bookkeeping about the call, not read by it:
     firstRow |-> 0, callRow |-> 0, dispatched |-> {}, freshAtStart |-> {}]

Init ==
    /\ budgets = InitBudgets
    /\ households = [h \in HouseholdIds |->
                        [name |-> "home", monthlyBudgetLimit |-> 0,
                         members |-> << [userId |-> "u1", role |-> "OWNER", joinedAt |-> 0] >>]]
    /\ transactions = EmptyBag
    /\ alerts = <<>>
    /\ now = 0
    /\ pc = [p \in Procs |-> "idle"]
    /\ loc = [p \in Procs |-> IdleLoc]
    /\ sends = <<>>
    /\ checks = 0
    /\ failures = 0
    /\ overlapped = {}
    /\ reply = NoReply

(* bookkeeping: the ledger holds a SENT row of (budget, threshold) created *)
(* in the period or later                                                  *)
SentInPeriod(rows, budgetId, threshold, period) ==
    \E i \in 1..Len(rows) :
        /\ rows[i].budgetId = budgetId /\ rows[i].threshold = threshold
        /\ rows[i].status = "SENT" /\ rows[i].createdAt >= period

(* ---------------- queries ---------------- *)
RECURSIVE SumAmounts(_, _)
SumAmounts(bag, docs) ==
    IF docs = {} THEN 0
    ELSE LET t == CHOOSE d \in docs : TRUE
         IN  t.amount * bag[t] + SumAmounts(bag, docs \ {t})

(* TransactionModel.aggregate([{$match: matchQuery}, {$group: {$sum: "$amount"}}]),
   then  aggregationResult[0]?.totalSpent || 0 *)
totalSpent(txs, budget, monthStart) ==
    SumAmounts(txs,
        { t \in DOMAIN txs :
            /\ t.type = "EXPENSE"
            /\ t.date = monthStart
            /\ t.status = "COMPLETED"
            /\ budget.type = "USER" => t.userId = budget.userId
            /\ budget.type = "HOUSEHOLD" => t.householdId = budget.householdId })

(* a findOne that compares createdAt with the end of the month instead of its start *)
existingAlertFromMonthEnd(rows, budgetId, threshold, monthStart) ==
    \E i \in 1..Len(rows) :
        /\ rows[i].budgetId = budgetId
        /\ rows[i].threshold = threshold
        /\ rows[i].status = "SENT"
        /\ rows[i].createdAt >= monthStart + 1

(* a findOne that leaves the budget out of its query *)
existingAlertOfAnyBudget(rows, budgetId, threshold, monthStart) ==
    \E i \in 1..Len(rows) :
        /\ rows[i].threshold = threshold
        /\ rows[i].status = "SENT"
        /\ rows[i].createdAt >= monthStart

(* a findOne that leaves the status out of its query *)
existingAlertOfAnyStatus(rows, budgetId, threshold, monthStart) ==
    \E i \in 1..Len(rows) :
        /\ rows[i].budgetId = budgetId
        /\ rows[i].threshold = threshold
        /\ rows[i].createdAt >= monthStart

(* AlertModel.findOne({budgetId, threshold, status: SENT, createdAt: {$gte: monthStart}}) *)
existingAlert(rows, budgetId, threshold, monthStart) ==
    \E i \in 1..Len(rows) :
        /\ rows[i].budgetId = budgetId
        /\ rows[i].threshold = threshold
        /\ rows[i].status = "SENT"
        /\ rows[i].createdAt >= monthStart

(* a test that passes only for the highest threshold the percentage has    *)
(* reached                                                                 *)
thresholdReachedHighestOnly(percentageUsed, threshold) ==
    /\ FGEInt(percentageUsed, threshold)
    /\ \A t \in AlertThresholdEnum : t > threshold => ~FGEInt(percentageUsed, t)

(* percentageUsed >= threshold *)
thresholdReached(percentageUsed, threshold) == FGEInt(percentageUsed, threshold)

(* a recipient list that keeps only the first member of a household *)
usersToNotifyFirstMember(budget, hh) ==
    IF budget.type = "USER" /\ budget.userId # NoId THEN << budget.userId >>
    ELSE IF budget.type = "HOUSEHOLD" /\ budget.householdId # NoId
    THEN IF budget.householdId \in DOMAIN hh /\ hh[budget.householdId] # NoDoc
         THEN << hh[budget.householdId].members[1].userId >>
         ELSE <<>>
    ELSE <<>>

(* the users a check notifies *)
usersToNotifyOf(budget, hh) ==
    IF budget.type = "USER" /\ budget.userId # NoId THEN << budget.userId >>
    ELSE IF budget.type = "HOUSEHOLD" /\ budget.householdId # NoId
    THEN IF budget.householdId \in DOMAIN hh /\ hh[budget.householdId] # NoDoc
         THEN [i \in 1..Len(hh[budget.householdId].members) |->
                    hh[budget.householdId].members[i].userId]
         ELSE <<>>
    ELSE <<>>

(* an SMS block that lacks its  if (user.phoneNumber)  guard *)
hasPhoneUnguarded(user) == TRUE

(* if (user.email) and if (user.phoneNumber) *)
hasEmail(user) == user.email
hasPhone(user) == user.phoneNumber

(* const isOverBudget = threshold === 100 && metadata.percentageUsed >= 100: *)
(* the message is the "Budget Exceeded" one                                  *)
isOverBudget(threshold, metadata) ==
    threshold = 100 /\ FGEInt(metadata.percentageUsed, 100)

(* outcomes of the two send capabilities: the mailer resolves or throws,   *)
(* the SMS placeholder logs and returns {success: true}                    *)
sendEmail == {TRUE, FALSE}
sendSMS   == {TRUE}

ErrorMessage == "delivery failed"    \* error.message of a failed send
NoMessage    == "unset"

(* a catch block that stores the row as SENT *)
alertRowAlwaysSent(userId, budgetId, householdId, alertType, threshold, ok, metadata, date) ==
    [userId |-> userId, budgetId |-> budgetId, householdId |-> householdId,
     alertType |-> alertType, threshold |-> threshold,
     status |-> "SENT",
     sentAt |-> IF ok THEN date ELSE NoDate,
     errorMessage |-> IF ok THEN NoMessage ELSE ErrorMessage,
     metadata |-> metadata, createdAt |-> date]

(* a catch block that stamps sentAt on the FAILED row too *)
alertRowSentAtAlways(userId, budgetId, householdId, alertType, threshold, ok, metadata, date) ==
    [userId |-> userId, budgetId |-> budgetId, householdId |-> householdId,
     alertType |-> alertType, threshold |-> threshold,
     status |-> IF ok THEN "SENT" ELSE "FAILED",
     sentAt |-> date,
     errorMessage |-> IF ok THEN NoMessage ELSE ErrorMessage,
     metadata |-> metadata, createdAt |-> date]

(* the document AlertModel.create stores: SENT with sentAt in the try      *)
(* block, FAILED with errorMessage in the catch block                      *)
alertRow(userId, budgetId, householdId, alertType, threshold, ok, metadata, date) ==
    [userId |-> userId, budgetId |-> budgetId, householdId |-> householdId,
     alertType |-> alertType, threshold |-> threshold,
     status |-> IF ok THEN "SENT" ELSE "FAILED",
     sentAt |-> IF ok THEN date ELSE NoDate,
     errorMessage |-> IF ok THEN NoMessage ELSE ErrorMessage,
     metadata |-> metadata, createdAt |-> date]

(* ---------------- the environment ---------------- *)
(* a transaction dated in the current month is recorded *)
createTransaction(k) ==
    /\ BagCardinality(transactions) < MaxTx
    /\ transactions' = transactions (+) SetToBag({ k @@ [date |-> now] })
    /\ UNCHANGED <<budgets, households, alerts, now, pc, loc, sends, checks, failures, overlapped, reply>>

(* the calendar month ends *)
NextMonth ==
    /\ now < MaxMonth
    /\ now' = now + 1
    /\ UNCHANGED <<budgets, households, transactions, alerts, pc, loc, sends, checks, failures, overlapped, reply>>

(* joinHouseholdService(householdId, userId); NotFound changes nothing *)
joinHouseholdService(h, u) ==
    /\ h \in DOMAIN households /\ households[h] # NoDoc
    /\ ~\E i \in 1..Len(households[h].members) : households[h].members[i].userId = u
    /\ households' = [households EXCEPT ![h].members =
                        Append(@, [userId |-> u, role |-> "MEMBER", joinedAt |-> now])]
    /\ UNCHANGED <<budgets, transactions, alerts, now, pc, loc, sends, checks, failures, overlapped, reply>>

(* ---------------- checkBudgetThresholdsService(budgetId) ---------------- *)
(* findById(budgetId); return when the budget is absent or inactive;       *)
(* now, monthStart, monthEnd                                               *)
checkFindBudget(p, b) ==
    /\ pc[p] = "idle"
    /\ checks < MaxChecks
    /\ checks' = checks + 1
    /\ IF budgets[b] = NoDoc \/ ~budgets[b].isActive
       THEN /\ pc' = [pc EXCEPT ![p] = "done"]
            /\ loc' = [loc EXCEPT ![p] = [IdleLoc EXCEPT !.budgetId = b, !.firstRow = Len(alerts)]]
       ELSE /\ pc' = [pc EXCEPT ![p] = "aggregate"]
            /\ loc' = [loc EXCEPT ![p] =
                        [IdleLoc EXCEPT !.budgetId = b, !.budget = budgets[b],
                                        !.monthStart = now, !.firstRow = Len(alerts),
                                        !.freshAtStart =
                                            {t \in AlertThresholdEnum : ~SentInPeriod(alerts, b, t, now)}]]
    /\ UNCHANGED <<budgets, households, transactions, alerts, now, sends, failures, reply>>
    /\ overlapped' = IF \E q \in Procs \ {p} : pc[q] \notin {"idle", "done"} /\ loc[q].budgetId = b
                     THEN overlapped \cup {b} ELSE overlapped

(* the aggregate over the month's completed expenses, then the amounts in  *)
(* dollars and percentageUsed                                              *)
checkAggregate(p) ==
    /\ pc[p] = "aggregate"
    /\ LET spent == totalSpent(transactions, loc[p].budget, loc[p].monthStart)
       IN  loc' = [loc EXCEPT ![p].totalSpentInCents = spent,
                              ![p].metadata = NumbersMemo[spent, loc[p].budget.monthlyLimit]]
    /\ pc' = [pc EXCEPT ![p] = "recipients"]
    /\ UNCHANGED <<budgets, households, transactions, alerts, now, sends, checks, failures, overlapped, reply>>

(* usersToNotify: the owner, or the household's members as read now *)
checkRecipients(p) ==
    /\ pc[p] = "recipients"
    /\ loc' = [loc EXCEPT ![p].usersToNotify = usersToNotifyOf(loc[p].budget, households),
                          ![p].ti = 1]
    /\ pc' = [pc EXCEPT ![p] = "threshold"]
    /\ UNCHANGED <<budgets, households, transactions, alerts, now, sends, checks, failures, overlapped, reply>>

(* one turn of  for (const threshold of thresholds): the percentage test   *)
(* and, when it passes, the findOne for an alert already sent this month   *)
checkThreshold(p) ==
    /\ pc[p] = "threshold"
    /\ IF loc[p].ti > Len(thresholds)
       THEN /\ pc' = [pc EXCEPT ![p] = "done"]
            /\ loc' = loc
       ELSE LET threshold == thresholds[loc[p].ti]
            IN  IF /\ thresholdReached(loc[p].metadata.percentageUsed, threshold)
                   /\ ~existingAlert(alerts, loc[p].budgetId, threshold, loc[p].monthStart)
                THEN /\ pc' = [pc EXCEPT ![p] = "notify"]
                     /\ loc' = [loc EXCEPT ![p].ui = 1,
                                           ![p].dispatched = @ \cup {threshold}]
                ELSE /\ pc' = pc
                     /\ loc' = [loc EXCEPT ![p].ti = @ + 1]
    /\ UNCHANGED <<budgets, households, transactions, alerts, now, sends, checks, failures, overlapped, reply>>

(* one turn of  for (const userId of usersToNotify): the call of           *)
(* sendBudgetAlertService up to its two findById                           *)
sendFindUser(p) ==
    /\ pc[p] = "notify"
    /\ IF loc[p].ui > Len(loc[p].usersToNotify)
       THEN /\ pc' = [pc EXCEPT ![p] = "threshold"]
            /\ loc' = [loc EXCEPT ![p].ti = @ + 1, ![p].ui = 0]
       ELSE LET userId == loc[p].usersToNotify[loc[p].ui]
                user   == IF userId \in DOMAIN UserModel THEN UserModel[userId] ELSE NoDoc
            IN  IF user = NoDoc \/ budgets[loc[p].budgetId] = NoDoc
                THEN /\ pc' = pc
                     /\ loc' = [loc EXCEPT ![p].ui = @ + 1]
                ELSE /\ pc' = [pc EXCEPT ![p] = IF hasEmail(user) THEN "email"
                                                ELSE IF hasPhone(user) THEN "sms"
                                                ELSE "notify"]
                     /\ loc' = [loc EXCEPT ![p].user = IF hasEmail(user) \/ hasPhone(user)
                                                       THEN user ELSE NoDoc,
                                           ![p].callRow = Len(alerts),
                                           ![p].ui = IF hasEmail(user) \/ hasPhone(user)
                                                     THEN @ ELSE @ + 1]
    /\ UNCHANGED <<budgets, households, transactions, alerts, now, sends, checks, failures, overlapped, reply>>

sendRecord(p, alertType, ok) ==
    [userId |-> loc[p].usersToNotify[loc[p].ui], budgetId |-> loc[p].budgetId,
     threshold |-> thresholds[loc[p].ti], alertType |-> alertType, ok |-> ok]

(* await sendEmail(...) *)
sendEmailCall(p) ==
    /\ pc[p] = "email"
    /\ \E ok \in sendEmail :
        /\ ok \/ failures < MaxFailures
        /\ failures' = IF ok THEN failures ELSE failures + 1
        /\ loc' = [loc EXCEPT ![p].sendOk = ok]
        /\ sends' = Append(sends, sendRecord(p, "EMAIL", ok))
    /\ pc' = [pc EXCEPT ![p] = "emailRow"]
    /\ UNCHANGED <<budgets, households, transactions, alerts, now, checks, overlapped, reply>>

(* an email failure that skips the SMS of the same recipient *)
afterRowSkipSms(p, alertType) ==
    IF alertType = "EMAIL" /\ hasPhone(loc[p].user) /\ loc[p].sendOk
    THEN /\ pc' = [pc EXCEPT ![p] = "sms"]
         /\ loc' = [loc EXCEPT ![p].sendOk = TRUE]
    ELSE /\ pc' = [pc EXCEPT ![p] = "notify"]
         /\ loc' = [loc EXCEPT ![p].sendOk = TRUE, ![p].user = NoDoc, ![p].ui = @ + 1]

(* a delivery failure that ends the whole check after its row is written *)
afterRowAbort(p, alertType) ==
    IF ~loc[p].sendOk
    THEN /\ pc' = [pc EXCEPT ![p] = "done"]
         /\ loc' = [loc EXCEPT ![p].sendOk = TRUE, ![p].user = NoDoc]
    ELSE IF alertType = "EMAIL" /\ hasPhone(loc[p].user)
    THEN /\ pc' = [pc EXCEPT ![p] = "sms"]
         /\ loc' = [loc EXCEPT ![p].sendOk = TRUE]
    ELSE /\ pc' = [pc EXCEPT ![p] = "notify"]
         /\ loc' = [loc EXCEPT ![p].sendOk = TRUE, ![p].user = NoDoc, ![p].ui = @ + 1]

(* after the row of one channel: the next channel or the next user *)
afterRow(p, alertType) ==
    IF alertType = "EMAIL" /\ hasPhone(loc[p].user)
    THEN /\ pc' = [pc EXCEPT ![p] = "sms"]
         /\ loc' = [loc EXCEPT ![p].sendOk = TRUE]
    ELSE /\ pc' = [pc EXCEPT ![p] = "notify"]
         /\ loc' = [loc EXCEPT ![p].sendOk = TRUE, ![p].user = NoDoc, ![p].ui = @ + 1]

(* a row written by an upsert keyed on (budget, threshold, channel): the    *)
(* row of an earlier recipient is overwritten                              *)
createRowUpsert(p, alertType) ==
    /\ LET row == alertRow(loc[p].usersToNotify[loc[p].ui], loc[p].budgetId,
                           loc[p].budget.householdId, alertType, thresholds[loc[p].ti],
                           loc[p].sendOk, loc[p].metadata, now)
           old == { i \in 1..Len(alerts) : /\ alerts[i].budgetId = row.budgetId
                                           /\ alerts[i].threshold = row.threshold
                                           /\ alerts[i].alertType = row.alertType }
       IN  alerts' = IF old = {} THEN Append(alerts, row)
                     ELSE [alerts EXCEPT ![CHOOSE i \in old : TRUE] = row]
    /\ afterRow(p, alertType)

(* AlertModel.create: the row is appended to the ledger *)
createRow(p, alertType) ==
    /\ alerts' = Append(alerts,
            alertRow(loc[p].usersToNotify[loc[p].ui], loc[p].budgetId, loc[p].budget.householdId,
                     alertType, thresholds[loc[p].ti], loc[p].sendOk, loc[p].metadata, now))
    /\ afterRow(p, alertType)

(* AlertModel.create for the email: SENT in the try block, FAILED in the catch *)
emailAlertCreate(p) ==
    /\ pc[p] = "emailRow"
    /\ createRow(p, "EMAIL")
    /\ UNCHANGED <<budgets, households, transactions, now, sends, checks, failures, overlapped, reply>>

(* await sendSMS(...) *)
sendSMSCall(p) ==
    /\ pc[p] = "sms"
    /\ \E ok \in sendSMS :
        /\ loc' = [loc EXCEPT ![p].sendOk = ok]
        /\ sends' = Append(sends, sendRecord(p, "SMS", ok))
    /\ pc' = [pc EXCEPT ![p] = "smsRow"]
    /\ UNCHANGED <<budgets, households, transactions, alerts, now, checks, failures, overlapped, reply>>

(* AlertModel.create for the SMS *)
smsAlertCreate(p) ==
    /\ pc[p] = "smsRow"
    /\ createRow(p, "SMS")
    /\ UNCHANGED <<budgets, households, transactions, now, sends, checks, failures, overlapped, reply>>

(* the call returns to its caller *)
checkReturn(p) ==
    /\ pc[p] = "done"
    /\ pc' = [pc EXCEPT ![p] = "idle"]
    /\ loc' = [loc EXCEPT ![p] = IdleLoc]
    /\ UNCHANGED <<budgets, households, transactions, alerts, now, sends, checks, failures, overlapped, reply>>

checkStep(p) ==
    \/ checkAggregate(p)
    \/ checkRecipients(p)
    \/ checkThreshold(p)
    \/ sendFindUser(p)
    \/ sendEmailCall(p)
    \/ emailAlertCreate(p)
    \/ sendSMSCall(p)
    \/ smsAlertCreate(p)
    \/ checkReturn(p)

Environment ==
    \/ \E k \in TxKinds : createTransaction(k)
    \/ NextMonth
    \/ \E u \in UserIds : joinHouseholdService("h1", u)

(* checks run one after the other *)
Next ==
    \/ Environment
    \/ \E b \in BudgetIds : checkFindBudget(1, b)
    \/ checkStep(1)

Spec == Init /\ [][Next]_vars

(* overlapping checks are explored for the household budget, from the    *)
(* state in which one transaction has brought it to its first threshold  *)
RaceBudgets == {"b2"}
RaceTxKinds == { k \in TxKinds : k.type = "EXPENSE" /\ k.status = "COMPLETED" /\ k.amount = 810 }

InitRace ==
    /\ budgets = InitBudgets
    /\ households = [h \in HouseholdIds |->
                        [name |-> "home", monthlyBudgetLimit |-> 0,
                         members |-> << [userId |-> "u1", role |-> "OWNER", joinedAt |-> 0] >>]]
    /\ transactions = SetToBag({ k @@ [date |-> 0] : k \in RaceTxKinds })
    /\ alerts = <<>>
    /\ now = 0
    /\ pc = [p \in Procs |-> "idle"]
    /\ loc = [p \in Procs |-> IdleLoc]
    /\ sends = <<>>
    /\ checks = 0
    /\ failures = 0
    /\ overlapped = {}
    /\ reply = NoReply

(* checks of the budget overlap freely *)
NextRace ==
    \/ NextMonth
    \/ \E p \in Procs : \E b \in RaceBudgets : checkFindBudget(p, b)
    \/ \E p \in Procs : checkStep(p)

SpecRace == InitRace /\ [][NextRace]_vars

(* ---------------- checks of two different budgets ---------------- *)
(* one process checks the personal budget while the other checks the     *)
(* household budget, from the state in which each has been brought over  *)
(* its first threshold and u2 has joined the household                   *)
PairBudget == [p \in Procs |-> IF p = 1 THEN "b1" ELSE "b2"]
PairTxKinds == { k \in TxKinds : k.type = "EXPENSE" /\ k.status = "COMPLETED"
                                  /\ k.amount \in {47500, 810} }

InitPair ==
    /\ budgets = InitBudgets
    /\ households = [h \in HouseholdIds |->
                        [name |-> "home", monthlyBudgetLimit |-> 0,
                         members |-> << [userId |-> "u1", role |-> "OWNER", joinedAt |-> 0],
                                        [userId |-> "u2", role |-> "MEMBER", joinedAt |-> 0] >>]]
    /\ transactions = SetToBag({ k @@ [date |-> 0] : k \in PairTxKinds })
    /\ alerts = <<>>
    /\ now = 0
    /\ pc = [p \in Procs |-> "idle"]
    /\ loc = [p \in Procs |-> IdleLoc]
    /\ sends = <<>>
    /\ checks = 0
    /\ failures = 0
    /\ overlapped = {}
    /\ reply = NoReply

NextPair ==
    \/ \E p \in Procs : checkFindBudget(p, PairBudget[p])
    \/ \E p \in Procs : checkStep(p)

SpecPair == InitPair /\ [][NextPair]_vars

(* ---------------- the budget status services ---------------- *)
(* the limits and the transaction amounts, in cents, of the status requests *)
StatusLimits  == {0, 100, 160}
StatusAmounts == {1, 11, 150}
StatusTxKinds ==
    { [userId |-> u, householdId |-> (IF u = "u1" THEN "h1" ELSE NoId),
       amount |-> a, type |-> "EXPENSE", status |-> "COMPLETED"] :
         u \in {"u1", "u2"}, a \in StatusAmounts }
    \cup { k \in TxKinds : k.type = "INCOME" \/ k.status = "PENDING" }

RECURSIVE StatusSumsUpTo(_)
StatusSumsUpTo(k) ==
    IF k = 0 THEN {0}
    ELSE LET prev == StatusSumsUpTo(k - 1)
         IN  prev \cup {s + t.amount : s \in prev, t \in StatusTxKinds}

(* the status arithmetic, computed once for every pair of amounts: the    *)
(* status of an active budget and that of an inactive one, and the status *)
(* of the household budget for the spends of its checks                   *)
StatusTable ==
    { [spent |-> s, limit |-> l, active |-> a,
       status |-> IF a THEN budgetStatusOf(s, l) ELSE inactiveStatusOf(l)] :
          s \in StatusSumsUpTo(MaxTx), l \in StatusLimits, a \in BOOLEAN }
    \cup
    { [spent |-> s, limit |-> InitBudgets["b2"].monthlyLimit, active |-> TRUE,
       status |-> budgetStatusOf(s, InitBudgets["b2"].monthlyLimit)] :
          s \in { t \in SpendDomain : t <= 2 * InitBudgets["b2"].monthlyLimit } }

StatusMemo(s, l, a) ==
    (CHOOSE r \in StatusTable : r.spent = s /\ r.limit = l /\ r.active = a).status

(* what a status request gave its caller: the BudgetStatus it returned or  *)
(* the exception it threw; spentCents and limitCents are bookkeeping, the  *)
(* cents spent in the month and the limit at the time of the request       *)
returned(op, id, status, active, spentCents, limitCents) ==
    [op |-> op, id |-> id, outcome |-> "returned", status |-> status,
     active |-> active, spentCents |-> spentCents, limitCents |-> limitCents]
thrown(op, id, exception) ==
    [op |-> op, id |-> id, outcome |-> exception, status |-> NoDoc,
     active |-> FALSE, spentCents |-> 0, limitCents |-> 0]

(* an answer that gives an absent budget a zero status *)
statusReplyDefaulting(op, id, budget, spent) ==
    IF budget = NoDoc THEN returned(op, id, StatusMemo(0, 0, FALSE), FALSE, 0, 0)
    ELSE returned(op, id,
                  StatusMemo(spent, budget.monthlyLimit, budget.isActive),
                  budget.isActive, spent, budget.monthlyLimit)

(* the answer for a budget document: NotFoundException when there is none, *)
(* the zero status of an inactive one, else the status of the spend        *)
statusReply(op, id, budget, spent) ==
    IF budget = NoDoc THEN thrown(op, id, "NotFoundException")
    ELSE returned(op, id,
                  StatusMemo(spent, budget.monthlyLimit, budget.isActive),
                  budget.isActive, spent, budget.monthlyLimit)

(* getBudgetStatusService(budgetId): the sum is that of the month's        *)
(* completed expenses of the owner or of the household                     *)
getBudgetStatusService(b) ==
    /\ reply' = statusReply("getBudgetStatusService", b, budgets[b],
                            IF budgets[b] = NoDoc THEN 0
                            ELSE totalSpent(transactions, budgets[b], now))
    /\ UNCHANGED <<budgets, households, transactions, alerts, now, pc, loc, sends, checks, failures, overlapped>>

(* the household of the legacy request seen as the budget it stands for *)
householdBudget(h) ==
    IF h \notin DOMAIN households \/ households[h] = NoDoc THEN NoDoc
    ELSE [type |-> "HOUSEHOLD", userId |-> NoId, householdId |-> h,
          monthlyLimit |-> households[h].monthlyBudgetLimit, isActive |-> TRUE]

(* getBudgetStatusByHouseholdService(householdId): the same arithmetic on  *)
(* household.monthlyBudgetLimit and the household's transactions           *)
getBudgetStatusByHouseholdService(h) ==
    /\ reply' = statusReply("getBudgetStatusByHouseholdService", h, householdBudget(h),
                            IF householdBudget(h) = NoDoc THEN 0
                            ELSE totalSpent(transactions, householdBudget(h), now))
    /\ UNCHANGED <<budgets, households, transactions, alerts, now, pc, loc, sends, checks, failures, overlapped>>

(* the budgets and the household carry one of the limits; no transaction yet *)
InitStatus ==
    /\ \E l \in StatusLimits :
          /\ budgets = [b \in BudgetIds |->
                           IF InitBudgets[b] = NoDoc THEN NoDoc
                           ELSE [InitBudgets[b] EXCEPT !.monthlyLimit = l]]
          /\ households = [h \in HouseholdIds |->
                              [name |-> "home", monthlyBudgetLimit |-> l,
                               members |-> << [userId |-> "u1", role |-> "OWNER", joinedAt |-> 0] >>]]
    /\ transactions = EmptyBag
    /\ alerts = <<>>
    /\ now = 0
    /\ pc = [p \in Procs |-> "idle"]
    /\ loc = [p \in Procs |-> IdleLoc]
    /\ sends = <<>>
    /\ checks = 0
    /\ failures = 0
    /\ overlapped = {}
    /\ reply = NoReply

(* the budgets whose check returns at once: the inactive and the absent one *)
IdleBudgets == {"b3", "b4"}

NextStatus ==
    \/ \E k \in StatusTxKinds : createTransaction(k)
    \/ NextMonth
    \/ \E b \in BudgetIds : getBudgetStatusService(b)
    \/ \E h \in HouseholdIds \cup {NoId} : getBudgetStatusByHouseholdService(h)
    \/ \E b \in IdleBudgets : checkFindBudget(1, b)
    \/ checkReturn(1)

SpecStatus == InitStatus /\ [][NextStatus]_vars

(* ---------------- the alert queries ---------------- *)
(* filters?.limit || 50 *)
DefaultLimit == 50

(* a filter the caller left out *)
NoStatus == "none"
NoNumber == -1

(* the filters of the requests: budgetId?, status?, threshold?, limit? *)
AlertFilters ==
    [budgetId : {NoId, "b2"}, status : {NoStatus, "FAILED"},
     threshold : {NoNumber, 0, 70}, limit : {NoNumber, 0, 2}]

(* the users of the requests: the two the ledger holds rows of *)
AlertUsers == {"u1", "u2"}

(* the alert ids of the requests: positions in the ledger, the last absent *)
AlertIds == {1, 2, 10, MaxAlerts + 1}

(* the i-th row the dispatches of this ledger write: u1 on both channels   *)
(* for the household budget and its own, every tenth row for u2, every     *)
(* fourth email failed                                                     *)
ledgerRow(i, date) ==
    alertRow(IF i % 10 = 0 THEN "u2" ELSE "u1",
             IF i % 10 = 0 THEN (IF i % 20 = 0 THEN "b2" ELSE "b1")
             ELSE (IF i % 2 = 0 THEN "b2" ELSE "b3"),
             IF (i % 10 = 0 /\ i % 20 = 0) \/ (i % 10 # 0 /\ i % 2 = 0) THEN "h1" ELSE NoId,
             IF i % 10 # 0 /\ i % 3 = 0 THEN "SMS" ELSE "EMAIL",
             thresholds[((i \div 2) % 3) + 1],
             (i % 10 # 0 /\ i % 3 = 0) \/ i % 4 # 0,
             NoDoc, date)

(* AlertModel.create of a dispatch, between two requests *)
alertCreate ==
    /\ reply = NoReply
    /\ Len(alerts) < MaxAlerts
    /\ alerts' = Append(alerts, ledgerRow(Len(alerts) + 1, now))
    /\ UNCHANGED <<budgets, households, transactions, now, pc, loc, sends, checks, failures, overlapped, reply>>

(* query = {userId}, plus budgetId, status, threshold when the filter is truthy *)
alertQuery(row, userId, filters) ==
    /\ row.userId = userId
    /\ filters.budgetId # NoId => row.budgetId = filters.budgetId
    /\ filters.status # NoStatus => row.status = filters.status
    /\ (filters.threshold # NoNumber /\ filters.threshold # 0)
          => row.threshold = filters.threshold

(* const limit = filters?.limit || 50 *)
limitOf(filters) ==
    IF filters.limit # NoNumber /\ filters.limit # 0 THEN filters.limit ELSE DefaultLimit

(* AlertModel.find(query).sort({createdAt: -1}).limit(limit): the ids of   *)
(* the rows found, the row created last first                              *)
findAlerts(rows, userId, filters) ==
    LET hits == SelectSeq([k \in 1..Len(rows) |-> Len(rows) + 1 - k],
                          LAMBDA i : alertQuery(rows[i], userId, filters))
    IN  SubSeq(hits, 1, IF Len(hits) < limitOf(filters) THEN Len(hits) ELSE limitOf(filters))

(* getUserAlertsService(userId, filters) *)
getUserAlertsService(u, f) ==
    /\ reply = NoReply
    /\ reply' = [op |-> "getUserAlertsService", userId |-> u, filters |-> f,
                 outcome |-> "returned", alerts |-> findAlerts(alerts, u, f),
                 ledger |-> Len(alerts)]
    /\ UNCHANGED <<budgets, households, transactions, alerts, now, pc, loc, sends, checks, failures, overlapped>>

(* a findOne that leaves the userId out of its query *)
findOneAlertOfAnyUser(rows, alertId, userId) == alertId \in 1..Len(rows)

(* AlertModel.findOne({_id: alertId, userId}) found a row *)
findOneAlert(rows, alertId, userId) ==
    alertId \in 1..Len(rows) /\ rows[alertId].userId = userId

(* markAlertAsReadService(alertId, userId): the row, or Error("Alert not   *)
(* found"); nothing is written                                             *)
markAlertAsReadService(id, u) ==
    /\ reply = NoReply
    /\ reply' = [op |-> "markAlertAsReadService", alertId |-> id, userId |-> u,
                 outcome |-> IF findOneAlert(alerts, id, u) THEN "returned"
                             ELSE "Error: Alert not found",
                 alert |-> IF findOneAlert(alerts, id, u) THEN alerts[id] ELSE NoDoc,
                 ledger |-> Len(alerts)]
    /\ UNCHANGED <<budgets, households, transactions, alerts, now, pc, loc, sends, checks, failures, overlapped>>

(* the controller sends the response of the request *)
sendResponse ==
    /\ reply # NoReply
    /\ reply' = NoReply
    /\ UNCHANGED <<budgets, households, transactions, alerts, now, pc, loc, sends, checks, failures, overlapped>>

NextAlerts ==
    \/ alertCreate
    \/ (reply = NoReply /\ NextMonth)
    \/ \E u \in AlertUsers, f \in AlertFilters : getUserAlertsService(u, f)
    \/ \E id \in AlertIds, u \in AlertUsers : markAlertAsReadService(id, u)
    \/ sendResponse

SpecAlerts == Init /\ [][NextAlerts]_vars

(* ---------------- the monitoring core as a whole ---------------- *)
(* the checks of the household budget, the status request for it and the   *)
(* alert requests of its two members, while household expenses are         *)
(* recorded                                                                *)
CoreBudget == "b2"
CoreTxKinds ==
    { k \in TxKinds : k.householdId = "h1" /\ k.type = "EXPENSE" /\ k.status = "COMPLETED" }
CoreFilters ==
    [budgetId : {NoId}, status : {NoStatus, "FAILED"}, threshold : {NoNumber},
     limit : {NoNumber, 2}]
CoreAlertIds == {1, 4}

InitCore ==
    /\ budgets = InitBudgets
    /\ households = [h \in HouseholdIds |->
                        [name |-> "home", monthlyBudgetLimit |-> 0,
                         members |-> << [userId |-> "u1", role |-> "OWNER", joinedAt |-> 0],
                                        [userId |-> "u2", role |-> "MEMBER", joinedAt |-> 0] >>]]
    /\ transactions = EmptyBag
    /\ alerts = <<>>
    /\ now = 0
    /\ pc = [p \in Procs |-> "idle"]
    /\ loc = [p \in Procs |-> IdleLoc]
    /\ sends = <<>>
    /\ checks = 0
    /\ failures = 0
    /\ overlapped = {}
    /\ reply = NoReply

NextCore ==
    \/ \E k \in CoreTxKinds : createTransaction(k)
    \/ checkFindBudget(1, CoreBudget)
    \/ checkStep(1)
    \/ getBudgetStatusService(CoreBudget)
    \/ \E u \in AlertUsers, f \in CoreFilters : getUserAlertsService(u, f)
    \/ \E id \in CoreAlertIds, u \in AlertUsers : markAlertAsReadService(id, u)
    \/ sendResponse

SpecCore == InitCore /\ [][NextCore]_vars

(* ---------------- checks that keep being requested ---------------- *)
(* the household budget with two members; the expenses of the month are    *)
(* recorded before the checks and nothing else changes                     *)
LiveSpends == { S \in SUBSET CoreTxKinds : S # {} }

InitLive ==
    /\ budgets = InitBudgets
    /\ households = [h \in HouseholdIds |->
                        [name |-> "home", monthlyBudgetLimit |-> 0,
                         members |-> << [userId |-> "u1", role |-> "OWNER", joinedAt |-> 0],
                                        [userId |-> "u2", role |-> "MEMBER", joinedAt |-> 0] >>]]
    /\ \E S \in LiveSpends : transactions = SetToBag({ k @@ [date |-> 0] : k \in S })
    /\ alerts = <<>>
    /\ now = 0
    /\ pc = [p \in Procs |-> "idle"]
    /\ loc = [p \in Procs |-> IdleLoc]
    /\ sends = <<>>
    /\ checks = 0
    /\ failures = 0
    /\ overlapped = {}
    /\ reply = NoReply

(* requests for a check keep arriving: the count of checks starts over *)
triggerBudgetCheckAgain ==
    /\ pc[1] = "idle"
    /\ checks = MaxChecks
    /\ checks' = 0
    /\ UNCHANGED <<budgets, households, transactions, alerts, now, pc, loc, sends, failures, overlapped, reply>>

NextLive ==
    \/ checkFindBudget(1, CoreBudget)
    \/ checkStep(1)
    \/ triggerBudgetCheckAgain

(* every requested check starts and every started check runs to its end *)
SpecLive ==
    /\ InitLive /\ [][NextLive]_vars
    /\ WF_vars(checkFindBudget(1, CoreBudget))
    /\ WF_vars(checkStep(1))
    /\ WF_vars(triggerBudgetCheckAgain)

(* ---------------- budgets and households ---------------- *)
(* the ids of the household and of the budget that do not exist at first   *)
OrgHouseholdIds == {"h1", "h2"}
NewHouseholdId  == "h2"
NewBudgetId     == "b4"
OrgBudgets      == {"b1", "b2", "b4"}      \* the budgets the requests name

(* utils/format-currency: dollars to cents, for whole dollars *)
convertToCents(amount) == amount * 100

(* CreateBudgetInput: type, monthlyLimit (dollars), name, userId?, householdId? *)
CreateBudgetInputs ==
    [type : BudgetTypeEnum, monthlyLimit : {9}, name : {"added"},
     userId : {NoId, "u1", "u2"}, householdId : {NoId, "h1", "h2"}]

(* UpdateBudgetInput: the fields the input carries, and their values *)
UpdateBudgetInputs ==
    { [fields |-> {"monthlyLimit"}, monthlyLimit |-> 9, name |-> "renamed", isActive |-> FALSE],
      [fields |-> {"name", "isActive"}, monthlyLimit |-> 9, name |-> "renamed", isActive |-> FALSE] }

(* createBudgetSchema.parse(req.body): type, monthlyLimit, name and          *)
(* householdId are kept, every other key of the body is stripped           *)
createBudgetSchema(body) == [body EXCEPT !.userId = NoId]

(* HouseholdModel.findById *)
findHousehold(hh, householdId) ==
    IF householdId \in DOMAIN hh THEN hh[householdId] ELSE NoDoc

(* household.members.find(m => m.userId.toString() === userId.toString()) *)
findMember(household, userId) ==
    LET at == { k \in 1..Len(household.members) : household.members[k].userId = userId }
    IN  IF at = {} THEN NoDoc
        ELSE household.members[CHOOSE k \in at : \A j \in at : k <= j]

(* budgetSchema.pre("save"): the error of a budget without the id of its scope *)
budgetSaveError(budget) ==
    \/ budget.type = "USER" /\ budget.userId = NoId
    \/ budget.type = "HOUSEHOLD" /\ budget.householdId = NoId

(* the checks of createBudgetService: "ok" or the exception thrown *)
createBudgetCheck(userId, input, hh) ==
    IF input.type = "USER" /\ input.userId # userId THEN "BadRequestException"
    ELSE IF input.type = "HOUSEHOLD"
    THEN IF input.householdId = NoId THEN "BadRequestException"
         ELSE IF findHousehold(hh, input.householdId) = NoDoc THEN "NotFoundException"
         ELSE IF findMember(findHousehold(hh, input.householdId), userId) = NoDoc
         THEN "BadRequestException"
         ELSE "ok"
    ELSE "ok"

(* a document that keeps both ids of the input *)
newBudgetKeepingIds(userId, input) ==
    [type |-> input.type, userId |-> userId, householdId |-> input.householdId,
     monthlyLimit |-> convertToCents(input.monthlyLimit), name |-> input.name,
     isActive |-> TRUE]

(* the document BudgetModel.create is given *)
newBudget(userId, input) ==
    [type |-> input.type,
     userId |-> IF input.type = "USER" THEN userId ELSE NoId,
     householdId |-> IF input.type = "HOUSEHOLD" THEN input.householdId ELSE NoId,
     monthlyLimit |-> convertToCents(input.monthlyLimit), name |-> input.name,
     isActive |-> TRUE]

(* a permission check that lets every member update *)
updatePermissionOfMembers(budget, userId, hh) ==
    IF budget.type = "USER"
    THEN IF budget.userId # userId THEN "BadRequestException" ELSE "ok"
    ELSE IF findHousehold(hh, budget.householdId) = NoDoc THEN "NotFoundException"
    ELSE IF findMember(findHousehold(hh, budget.householdId), userId) = NoDoc
    THEN "BadRequestException"
    ELSE "ok"

(* updateBudgetService: check ownership/permissions *)
updatePermission(budget, userId, hh) ==
    IF budget.type = "USER"
    THEN IF budget.userId # userId THEN "BadRequestException" ELSE "ok"
    ELSE IF findHousehold(hh, budget.householdId) = NoDoc THEN "NotFoundException"
    ELSE LET member == findMember(findHousehold(hh, budget.householdId), userId)
         IN  IF member = NoDoc \/ member.role = "VIEWER" THEN "BadRequestException" ELSE "ok"

(* deleteBudgetService: check ownership/permissions *)
deletePermission(budget, userId, hh) ==
    IF budget.type = "USER"
    THEN IF budget.userId # userId THEN "BadRequestException" ELSE "ok"
    ELSE IF findHousehold(hh, budget.householdId) = NoDoc THEN "NotFoundException"
    ELSE LET member == findMember(findHousehold(hh, budget.householdId), userId)
         IN  IF member = NoDoc \/ member.role # "OWNER" THEN "BadRequestException" ELSE "ok"

(* getBudgetByIdService: check access *)
accessCheck(budget, userId, hh) ==
    IF budget.type = "USER"
    THEN IF budget.userId # userId THEN "BadRequestException" ELSE "ok"
    ELSE IF findHousehold(hh, budget.householdId) = NoDoc THEN "NotFoundException"
    ELSE IF findMember(findHousehold(hh, budget.householdId), userId) = NoDoc
    THEN "BadRequestException"
    ELSE "ok"

(* the fields updateBudgetService assigns *)
updatedBudget(budget, input) ==
    [budget EXCEPT
        !.monthlyLimit = IF "monthlyLimit" \in input.fields
                         THEN convertToCents(input.monthlyLimit) ELSE @,
        !.name = IF "name" \in input.fields THEN input.name ELSE @,
        !.isActive = IF "isActive" \in input.fields THEN input.isActive ELSE @]

(* a join that does not look for an existing member *)
joinedMembersUnchecked(members, userId, date) ==
    Append(members, [userId |-> userId, role |-> "MEMBER", joinedAt |-> date])

(* joinHouseholdService: the members after the call *)
joinedMembers(members, userId, date) ==
    IF \E k \in 1..Len(members) : members[k].userId = userId THEN members
    ELSE Append(members, [userId |-> userId, role |-> "MEMBER", joinedAt |-> date])

(* what a request gave its caller: outcome is "returned" or the exception; *)
(* before is bookkeeping, the document as it was when the request arrived  *)
orgReply(op, userId, id, input, outcome, result, before) ==
    [op |-> op, userId |-> userId, id |-> id, input |-> input, outcome |-> outcome,
     result |-> result, before |-> before]

(* createBudgetService(userId, input), entered as op *)
createBudgetServiceAs(op, userId, input) ==
    /\ budgets[NewBudgetId] = NoDoc
    /\ LET check == createBudgetCheck(userId, input, households)
           error == IF check # "ok" THEN check
                    ELSE IF budgetSaveError(newBudget(userId, input)) THEN "Error"
                    ELSE "ok"
       IN  IF error # "ok"
           THEN /\ budgets' = budgets
                /\ reply' = orgReply(op, userId, NewBudgetId, input, error, NoDoc, NoDoc)
           ELSE /\ budgets' = [budgets EXCEPT ![NewBudgetId] = newBudget(userId, input)]
                /\ reply' = orgReply(op, userId, NewBudgetId, input, "returned",
                                     newBudget(userId, input), NoDoc)
    /\ UNCHANGED <<households, transactions, alerts, now, pc, loc, sends, checks, failures, overlapped>>

createBudgetService(userId, input) ==
    /\ reply = NoReply
    /\ createBudgetServiceAs("createBudgetService", userId, input)

(* createBudgetController: the body is parsed, then the service is called *)
createBudgetController(userId, body) ==
    /\ reply = NoReply
    /\ createBudgetServiceAs("createBudgetController", userId, createBudgetSchema(body))

(* updateBudgetService(budgetId, userId, input) *)
updateBudgetService(b, userId, input) ==
    /\ reply = NoReply
    /\ LET budget == budgets[b]
           error  == IF budget = NoDoc THEN "NotFoundException"
                     ELSE IF updatePermission(budget, userId, households) # "ok"
                     THEN updatePermission(budget, userId, households)
                     ELSE IF budgetSaveError(updatedBudget(budget, input)) THEN "Error"
                     ELSE "ok"
       IN  IF error # "ok"
           THEN /\ budgets' = budgets
                /\ reply' = orgReply("updateBudgetService", userId, b, input, error, NoDoc, budget)
           ELSE /\ budgets' = [budgets EXCEPT ![b] = updatedBudget(budget, input)]
                /\ reply' = orgReply("updateBudgetService", userId, b, input, "returned",
                                     updatedBudget(budget, input), budget)
    /\ UNCHANGED <<households, transactions, alerts, now, pc, loc, sends, checks, failures, overlapped>>

(* deleteBudgetService(budgetId, userId) *)
deleteBudgetService(b, userId) ==
    /\ reply = NoReply
    /\ LET budget == budgets[b]
           error  == IF budget = NoDoc THEN "NotFoundException"
                     ELSE deletePermission(budget, userId, households)
       IN  IF error # "ok"
           THEN /\ budgets' = budgets
                /\ reply' = orgReply("deleteBudgetService", userId, b, NoDoc, error, NoDoc, budget)
           ELSE /\ budgets' = [budgets EXCEPT ![b] = NoDoc]
                /\ reply' = orgReply("deleteBudgetService", userId, b, NoDoc, "returned",
                                     [success |-> TRUE], budget)
    /\ UNCHANGED <<households, transactions, alerts, now, pc, loc, sends, checks, failures, overlapped>>

(* getBudgetByIdService(budgetId, userId) *)
getBudgetByIdService(b, userId) ==
    /\ reply = NoReply
    /\ LET budget == budgets[b]
           error  == IF budget = NoDoc THEN "NotFoundException"
                     ELSE accessCheck(budget, userId, households)
       IN  reply' = IF error # "ok"
                    THEN orgReply("getBudgetByIdService", userId, b, NoDoc, error, NoDoc, budget)
                    ELSE orgReply("getBudgetByIdService", userId, b, NoDoc, "returned",
                                  budget, budget)
    /\ UNCHANGED <<budgets, households, transactions, alerts, now, pc, loc, sends, checks, failures, overlapped>>

(* createHouseholdService(name, userId, monthlyBudgetLimit = 0) *)
createHouseholdService(name, userId, monthlyBudgetLimit) ==
    /\ reply = NoReply
    /\ households[NewHouseholdId] = NoDoc
    /\ households' = [households EXCEPT ![NewHouseholdId] =
                        [name |-> name, monthlyBudgetLimit |-> convertToCents(monthlyBudgetLimit),
                         members |-> << [userId |-> userId, role |-> "OWNER", joinedAt |-> now] >>]]
    /\ reply' = orgReply("createHouseholdService", userId, NewHouseholdId, name, "returned",
                         households'[NewHouseholdId], NoDoc)
    /\ UNCHANGED <<budgets, transactions, alerts, now, pc, loc, sends, checks, failures, overlapped>>

(* joinHouseholdController: joinHouseholdService(householdId, userId) and  *)
(* its answer                                                              *)
joinHouseholdController(h, userId) ==
    /\ reply = NoReply
    /\ LET household == findHousehold(households, h)
       IN  IF household = NoDoc
           THEN /\ households' = households
                /\ reply' = orgReply("joinHouseholdService", userId, h, NoDoc,
                                     "NotFoundException", NoDoc, household)
           ELSE /\ households' = [households EXCEPT ![h].members =
                                     joinedMembers(@, userId, now)]
                /\ reply' = orgReply("joinHouseholdService", userId, h, NoDoc, "returned",
                                     households'[h], household)
    /\ UNCHANGED <<budgets, transactions, alerts, now, pc, loc, sends, checks, failures, overlapped>>

(* the personal budget, the household budget of a household with an owner  *)
(* and a viewer, no second household yet                                   *)
InitOrg ==
    /\ budgets = InitBudgets
    /\ households = [h \in OrgHouseholdIds |->
                        IF h = NewHouseholdId THEN NoDoc
                        ELSE [name |-> "home", monthlyBudgetLimit |-> 0,
                              members |-> << [userId |-> "u1", role |-> "OWNER", joinedAt |-> 0],
                                             [userId |-> "u3", role |-> "VIEWER", joinedAt |-> 0] >>]]
    /\ transactions = EmptyBag
    /\ alerts = <<>>
    /\ now = 0
    /\ pc = [p \in Procs |-> "idle"]
    /\ loc = [p \in Procs |-> IdleLoc]
    /\ sends = <<>>
    /\ checks = 0
    /\ failures = 0
    /\ overlapped = {}
    /\ reply = NoReply

NextOrg ==
    \/ \E u \in {"u1", "u2"}, input \in CreateBudgetInputs : createBudgetService(u, input)
    \/ \E u \in {"u1", "u2"}, body \in CreateBudgetInputs : createBudgetController(u, body)
    \/ \E b \in OrgBudgets, u \in UserIds, input \in UpdateBudgetInputs :
          updateBudgetService(b, u, input)
    \/ \E b \in OrgBudgets, u \in UserIds : deleteBudgetService(b, u)
    \/ \E b \in OrgBudgets, u \in UserIds : getBudgetByIdService(b, u)
    \/ createHouseholdService("second", "u2", 0)
    \/ \E h \in OrgHouseholdIds, u \in UserIds : joinHouseholdController(h, u)
    \/ sendResponse

SpecOrg == InitOrg /\ [][NextOrg]_vars

(* ---------------- vocabulary of the properties ---------------- *)
TypeOK ==
    /\ checks \in 0..MaxChecks
    /\ failures \in 0..MaxFailures
    /\ now \in 0..MaxMonth
    /\ BagCardinality(transactions) <= MaxTx

(* the same (recipient, budget, threshold, channel) *)
SameKey(r1, r2) ==
    /\ r1.userId = r2.userId
    /\ r1.budgetId = r2.budgetId
    /\ r1.threshold = r2.threshold
    /\ r1.alertType = r2.alertType

(* created in the same period *)
SamePeriod(r1, r2) == r1.createdAt = r2.createdAt

(* the sequential check has got past its findById and found an active budget *)
Running == pc[1] # "idle" /\ loc[1].budget # NoDoc

(* the sequential check has finished the work of an active budget *)
Finished == pc[1] = "done" /\ loc[1].budget # NoDoc

(* the rows the running check has added *)
NewRows == SubSeq(alerts, loc[1].firstRow + 1, Len(alerts))

(* the sends the running check has made *)
NewSends == SubSeq(sends, loc[1].firstRow + 1, Len(sends))

Attempt(r) == [userId |-> r.userId, budgetId |-> r.budgetId,
               threshold |-> r.threshold, alertType |-> r.alertType]

AttemptsOf(rs) == [i \in 1..Len(rs) |-> Attempt(rs[i])]

(* the channels of a user, email first *)
ChannelsOf(u) ==
    (IF UserModel[u].email THEN << "EMAIL" >> ELSE << >>) \o
    (IF UserModel[u].phoneNumber THEN << "SMS" >> ELSE << >>)

RECURSIVE AttemptsForUsers(_, _, _)
AttemptsForUsers(users, b, t) ==
    IF users = << >> THEN << >>
    ELSE [i \in 1..Len(ChannelsOf(Head(users))) |->
            [userId |-> Head(users), budgetId |-> b, threshold |-> t,
             alertType |-> ChannelsOf(Head(users))[i]]]
         \o AttemptsForUsers(Tail(users), b, t)

(* what a check attempts for the thresholds ts: thresholds ascending, then *)
(* recipients in order, then channels                                      *)
RECURSIVE AttemptsFor(_, _, _)
AttemptsFor(ts, users, b) ==
    IF ts = << >> THEN << >>
    ELSE AttemptsForUsers(users, b, Head(ts)) \o AttemptsFor(Tail(ts), users, b)

Ascending(S) == SelectSeq(thresholds, LAMBDA t : t \in S)

(* the members of the budget's household, or its owner *)
RecipientsOf(budget) ==
    IF budget.type = "HOUSEHOLD"
    THEN [i \in 1..Len(households[budget.householdId].members) |->
            households[budget.householdId].members[i].userId]
    ELSE << budget.userId >>

(* ---------------- C1 ---------------- *)
(* C1: when the ledger held a SENT row for (budget, T) created in the      *)
(* current period at the start of a check that overlaps no other, and      *)
(* percentageUsed is at least T, the check adds no row for T, for any      *)
(* recipient and any channel.                                              *)
C1_Idempotent ==
    \A t \in AlertThresholdEnum :
        ( /\ Running /\ loc[1].metadata # NoDoc
          /\ t \notin loc[1].freshAtStart
          /\ thresholdReached(loc[1].metadata.percentageUsed, t) )
        => \A i \in 1..Len(NewRows) :
                ~(NewRows[i].budgetId = loc[1].budgetId /\ NewRows[i].threshold = t)

(* a check has finished that found 70 reached and already sent, after      *)
(* working through the thresholds                                          *)
C1_Witness ==
    /\ Finished
    /\ 70 \notin loc[1].freshAtStart
    /\ thresholdReached(loc[1].metadata.percentageUsed, 70)
    /\ loc[1].ti > Len(thresholds)

(* ---------------- C2 ---------------- *)
(* C2: a check of an active budget with a positive limit and no SENT alert *)
(* in the period dispatches exactly the thresholds T of {70, 90, 100} with *)
(* spend * 100 >= T * limit.                                               *)
C2_DispatchedSet ==
    ( /\ Finished
      /\ loc[1].budget.monthlyLimit > 0
      /\ loc[1].freshAtStart = AlertThresholdEnum )
    => loc[1].dispatched =
         { t \in AlertThresholdEnum :
             loc[1].totalSpentInCents * 100 >= t * loc[1].budget.monthlyLimit }

(* ---------------- C3 ---------------- *)
(* C3 as stated: after checks that do not overlap, the ledger holds at     *)
(* most one row per (recipient, budget, threshold, channel) and period.    *)
C3_AtMostOneRow ==
    \A i, j \in 1..Len(alerts) :
        i < j => ~(SameKey(alerts[i], alerts[j]) /\ SamePeriod(alerts[i], alerts[j]))

(* C3 amended: after checks that do not overlap, of two rows with the same *)
(* (recipient, budget, threshold, channel) created in the same period the  *)
(* earlier one is FAILED; so at most one of them is SENT.                  *)
C3_RepeatOnlyAfterFailure ==
    \A i, j \in 1..Len(alerts) :
        (i < j /\ SameKey(alerts[i], alerts[j]) /\ SamePeriod(alerts[i], alerts[j]))
        => alerts[i].status = "FAILED"

(* a FAILED row followed by a SENT row of the same key and period *)
C3_Witness ==
    \E i, j \in 1..Len(alerts) :
        /\ i < j
        /\ SameKey(alerts[i], alerts[j]) /\ SamePeriod(alerts[i], alerts[j])
        /\ alerts[i].status = "FAILED" /\ alerts[j].status = "SENT"

(* ---------------- C4 ---------------- *)
(* the row after position callRow is the EMAIL row of u, with the status   *)
(* of its send                                                             *)
C4_EmailRowOf(u) ==
    /\ Len(alerts) >= loc[1].callRow + 1
    /\ Attempt(alerts[loc[1].callRow + 1]) =
            [userId |-> u, budgetId |-> loc[1].budgetId,
             threshold |-> thresholds[loc[1].ti], alertType |-> "EMAIL"]
    /\ Attempt(sends[loc[1].callRow + 1]) = Attempt(alerts[loc[1].callRow + 1])
    /\ alerts[loc[1].callRow + 1].status =
            IF sends[loc[1].callRow + 1].ok THEN "SENT" ELSE "FAILED"

(* the second row after position callRow is the SMS row of u and the last *)
C4_SmsRowOf(u) ==
    /\ Len(alerts) = loc[1].callRow + 2
    /\ Attempt(alerts[loc[1].callRow + 2]) =
            [userId |-> u, budgetId |-> loc[1].budgetId,
             threshold |-> thresholds[loc[1].ti], alertType |-> "SMS"]
    /\ Attempt(sends[loc[1].callRow + 2]) = Attempt(alerts[loc[1].callRow + 2])
    /\ alerts[loc[1].callRow + 2].status =
            IF sends[loc[1].callRow + 2].ok THEN "SENT" ELSE "FAILED"

(* the call for the recipient before position ui has just returned *)
C4_CallReturned ==
    /\ pc[1] = "notify" /\ loc[1].ui > 1
    /\ UserModel[loc[1].usersToNotify[loc[1].ui - 1]].email
    /\ UserModel[loc[1].usersToNotify[loc[1].ui - 1]].phoneNumber

C5_RecipientsRead ==
    (pc[1] = "recipients" /\ pc'[1] = "threshold")
    => loc'[1].usersToNotify = RecipientsOf(loc[1].budget)

(* the rows of a finished check: thresholds, recipients, channels in order *)
C5_RowsOfCheck ==
    Finished =>
        /\ AttemptsOf(NewRows) =
              AttemptsFor(Ascending(loc[1].dispatched), loc[1].usersToNotify, loc[1].budgetId)
        /\ \A i, j \in 1..Len(NewRows) : NewRows[i].metadata = NewRows[j].metadata
        /\ loc[1].budget.type = "USER"
              => \A i \in 1..Len(NewRows) : NewRows[i].userId = loc[1].budget.userId

(* C5: a check reads as its recipients every current member of the         *)
(* household of a HOUSEHOLD budget, and the owner alone of a USER budget;  *)
(* for each threshold it dispatches, every recipient gets one row per      *)
(* channel it has an address for, and all rows of the check carry the same *)
(* metadata.                                                               *)
C5_FanOut == [][C5_RecipientsRead]_vars /\ []C5_RowsOfCheck

(* a check of the household budget has finished that dispatched to three   *)
(* members, among them one with two channels and one with one              *)
C5_Witness ==
    /\ Finished
    /\ loc[1].budget.type = "HOUSEHOLD"
    /\ Len(loc[1].usersToNotify) = 3
    /\ loc[1].dispatched # {}
    /\ \E i, j \in 1..Len(NewRows) :
            NewRows[i].userId = "u1" /\ NewRows[j].userId = "u2"

(* ---------------- C6 ---------------- *)
(* C6: a failed delivery is recorded as a FAILED row and is not raised:    *)
(* the check goes on to every channel, recipient and threshold it would    *)
(* have attempted had the send succeeded, and returns having made them.    *)
C6_FailureContained ==
    /\ \A i \in 1..Len(alerts) : ~sends[i].ok => alerts[i].status = "FAILED"
    /\ Finished =>
          AttemptsOf(NewSends) =
              AttemptsFor(Ascending({ t \in loc[1].freshAtStart :
                                        thresholdReached(loc[1].metadata.percentageUsed, t) }),
                          loc[1].usersToNotify, loc[1].budgetId)

(* a check has finished in which a send failed and a later send was made *)
C6_Witness ==
    /\ Finished
    /\ \E i, j \in 1..Len(NewSends) : i < j /\ ~NewSends[i].ok /\ NewSends[j].ok

(* ---------------- C7 ---------------- *)
(* C7: every send is followed by the creation of exactly one row for its   *)
(* (recipient, budget, threshold, channel), SENT exactly when the send     *)
(* succeeded and FAILED exactly when it failed; a check adds as many rows  *)
(* as it made sends.                                                       *)
C7_RowPerSend ==
    /\ Len(sends) = Len(alerts) + (IF pc[1] \in {"emailRow", "smsRow"} THEN 1 ELSE 0)
    /\ \A i \in 1..Len(alerts) :
          /\ Attempt(alerts[i]) = Attempt(sends[i])
          /\ alerts[i].status = "SENT" <=> sends[i].ok
          /\ alerts[i].status = "FAILED" <=> ~sends[i].ok
    /\ Finished => Len(NewRows) = Len(NewSends)

(* a check has finished that made a failed and a successful send *)
C7_Witness ==
    /\ Finished
    /\ Len(NewSends) >= 2
    /\ \E i \in 1..Len(NewSends) : ~NewSends[i].ok
    /\ \E i \in 1..Len(NewSends) : NewSends[i].ok

(* ---------------- C8 ---------------- *)
(* C8: no EMAIL row and no email send for a recipient without an email     *)
(* address, no SMS row and no SMS send for a recipient without a phone     *)
(* number; a recipient with neither gets no row.                           *)
C8_NoAddressNoRow ==
    /\ \A i \in 1..Len(alerts) :
          /\ alerts[i].alertType = "EMAIL" => UserModel[alerts[i].userId].email
          /\ alerts[i].alertType = "SMS" => UserModel[alerts[i].userId].phoneNumber
    /\ \A i \in 1..Len(sends) :
          /\ sends[i].alertType = "EMAIL" => UserModel[sends[i].userId].email
          /\ sends[i].alertType = "SMS" => UserModel[sends[i].userId].phoneNumber

(* a check has finished that dispatched to a member without a phone number *)
(* and a member without any address                                        *)
C8_Witness ==
    /\ Finished
    /\ loc[1].dispatched # {}
    /\ \E i, j \in 1..Len(loc[1].usersToNotify) :
          /\ loc[1].usersToNotify[i] = "u2"
          /\ loc[1].usersToNotify[j] = "u3"
    /\ \E i \in 1..Len(NewRows) : NewRows[i].userId = "u2"

(* ---------------- C9 ---------------- *)
(* C9: every row has status SENT or FAILED, never PENDING; sentAt is set   *)
(* exactly when it is SENT, the error detail exactly when it is FAILED;    *)
(* its channel is EMAIL or SMS and its threshold 70, 90 or 100.            *)
C9_RowShape ==
    \A i \in 1..Len(alerts) :
        /\ alerts[i].status \in {"SENT", "FAILED"}
        /\ alerts[i].sentAt # NoDate <=> alerts[i].status = "SENT"
        /\ alerts[i].errorMessage # NoMessage <=> alerts[i].status = "FAILED"
        /\ alerts[i].alertType \in AlertTypeEnum
        /\ alerts[i].threshold \in AlertThresholdEnum

(* the ledger holds a SENT and a FAILED row *)
C9_Witness ==
    /\ \E i \in 1..Len(alerts) : alerts[i].status = "SENT"
    /\ \E i \in 1..Len(alerts) : alerts[i].status = "FAILED"

(* ---------------- C10 ---------------- *)
(* C10: two checks of a budget that overlap can both find no SENT row and  *)
(* both dispatch: two SENT rows of the same (recipient, budget, threshold, *)
(* channel) and period are reachable, and only for a budget two checks of  *)
(* which have overlapped.                                                  *)
C10_DuplicateOnlyByRace ==
    \A i, j \in 1..Len(alerts) :
        ( /\ i < j
          /\ SameKey(alerts[i], alerts[j]) /\ SamePeriod(alerts[i], alerts[j])
          /\ alerts[i].status = "SENT" /\ alerts[j].status = "SENT" )
        => alerts[i].budgetId \in overlapped

(* two SENT rows of the same key and period *)
C10_Witness ==
    \E i, j \in 1..Len(alerts) :
        /\ i < j
        /\ SameKey(alerts[i], alerts[j]) /\ SamePeriod(alerts[i], alerts[j])
        /\ alerts[i].status = "SENT" /\ alerts[j].status = "SENT"

(* ---------------- C11 ---------------- *)
(* the rows of the budget of p added since the check of p started *)
RowsOfCheck(p) ==
    SelectSeq(SubSeq(alerts, loc[p].firstRow + 1, Len(alerts)),
              LAMBDA r : r.budgetId = loc[p].budgetId)

(* a step of p that writes a row writes one row, of the budget p checks *)
C11_OwnRowsOnly ==
    \A p \in Procs :
        (pc[p] \in {"emailRow", "smsRow"} /\ pc'[p] # pc[p])
        => /\ Len(alerts') = Len(alerts) + 1
           /\ SubSeq(alerts', 1, Len(alerts)) = alerts
           /\ alerts'[Len(alerts')].budgetId = PairBudget[p]

(* a finished check has added for its budget what it adds when it runs   *)
(* alone: the thresholds reached and not yet SENT for its own budget     *)
C11_SameAsAlone ==
    \A p \in Procs :
        (pc[p] = "done" /\ loc[p].budget # NoDoc)
        => AttemptsOf(RowsOfCheck(p)) =
              AttemptsFor(Ascending({ t \in loc[p].freshAtStart :
                                        thresholdReached(loc[p].metadata.percentageUsed, t) }),
                          loc[p].usersToNotify, loc[p].budgetId)

(* C11: checks of two different budgets that interleave end with the     *)
(* rows they add when run one after the other: a check adds only rows of *)
(* its own budget, and what it dispatches depends only on the rows of    *)
(* its own budget.                                                       *)
C11_Independent == [][C11_OwnRowsOnly]_vars /\ []C11_SameAsAlone

(* both checks have finished and their rows are interleaved in the ledger *)
C11_Witness ==
    /\ pc[1] = "done" /\ pc[2] = "done"
    /\ loc[1].budgetId = "b1" /\ loc[2].budgetId = "b2"
    /\ \E i, j, k \in 1..Len(alerts) :
          /\ i < j /\ j < k
          /\ alerts[i].budgetId = "b1" /\ alerts[j].budgetId = "b2" /\ alerts[k].budgetId = "b1"
          /\ alerts[i].threshold = alerts[j].threshold

(* ---------------- C12 ---------------- *)
(* the users that are members of household h now *)
MembersNow(h) == { households[h].members[i].userId : i \in 1..Len(households[h].members) }

(* the users of a recipient list *)
UsersIn(us) == { us[i] : i \in 1..Len(us) }

(* the recipients step of a household budget leaves as recipients the      *)
(* members of the household at that step, whatever the list held before    *)
C12_ReadAtEvaluation ==
    (pc[1] = "recipients" /\ pc'[1] = "threshold" /\ loc[1].budget.type = "HOUSEHOLD")
    => UsersIn(loc'[1].usersToNotify) = MembersNow(loc[1].budget.householdId)

(* a call starts with an empty recipient list *)
C12_NothingCarried ==
    (pc[1] = "idle" /\ pc'[1] # "idle") => loc'[1].usersToNotify = << >>

(* every recipient read by a finished check has a row, on each channel it  *)
(* has an address for, for each threshold the check dispatched             *)
C12_EveryRecipientDispatched ==
    (Finished /\ loc[1].budget.type = "HOUSEHOLD")
    => \A u \in UsersIn(loc[1].usersToNotify) : \A t \in loc[1].dispatched :
          \A c \in UsersIn(ChannelsOf(u)) :
              \E i \in 1..Len(NewRows) :
                  Attempt(NewRows[i]) = [userId |-> u, budgetId |-> loc[1].budgetId,
                                         threshold |-> t, alertType |-> c]

(* C12: the recipients of a check of a HOUSEHOLD budget are the members of *)
(* the household as read during that check, nothing being carried over     *)
(* from an earlier check; so a user who joined after an earlier check gets *)
(* a row for every threshold the next check dispatches.                    *)
C12_RecipientsAtEvaluation ==
    /\ [][C12_ReadAtEvaluation /\ C12_NothingCarried]_vars
    /\ []C12_EveryRecipientDispatched

(* a second check of the household budget has finished and dispatched to   *)
(* u2, for whom the ledger held no row when it started although it held    *)
(* rows of the budget from the earlier check                               *)
C12_Witness ==
    /\ Finished
    /\ loc[1].budget.type = "HOUSEHOLD"
    /\ loc[1].dispatched # {}
    /\ \E i \in 1..loc[1].firstRow : alerts[i].budgetId = loc[1].budgetId
    /\ \A i \in 1..loc[1].firstRow : alerts[i].userId # "u2"
    /\ \E i \in 1..Len(NewRows) : NewRows[i].userId = "u2"

(* ---------------- C13 ---------------- *)
(* the ledger held, when the sequential check started, a row of its budget *)
(* for threshold t with status st, created in the current period (cur) or  *)
(* before it                                                               *)
HeldAtStart(t, st, cur) ==
    \E i \in 1..loc[1].firstRow :
        /\ alerts[i].budgetId = loc[1].budgetId
        /\ alerts[i].threshold = t
        /\ alerts[i].status = st
        /\ (alerts[i].createdAt >= loc[1].monthStart) = cur

(* C13: a check leaves out a threshold T that percentageUsed has reached   *)
(* if and only if the ledger held a SENT row for (budget, T) created at or *)
(* after the start of the current period; FAILED rows of the period and    *)
(* SENT rows of an earlier period do not suppress T.                       *)
C13_SuppressedIffSent ==
    Finished =>
        \A t \in AlertThresholdEnum :
            thresholdReached(loc[1].metadata.percentageUsed, t)
            => (t \notin loc[1].dispatched <=> HeldAtStart(t, "SENT", TRUE))

(* a check has finished that dispatched a threshold with a FAILED row of   *)
(* the current period and a threshold with a SENT row of an earlier period *)
C13_Witness ==
    /\ Finished
    /\ \E t \in loc[1].dispatched :
          HeldAtStart(t, "FAILED", TRUE) /\ ~HeldAtStart(t, "SENT", TRUE)
    /\ \E t \in loc[1].dispatched :
          HeldAtStart(t, "SENT", FALSE) /\ ~HeldAtStart(t, "SENT", TRUE)

(* ---------------- C14 ---------------- *)
(* the last request was a status request that returned a status computed   *)
(* from the ledger                                                         *)
StatusComputed ==
    /\ reply.op \in {"getBudgetStatusService", "getBudgetStatusByHouseholdService"}
    /\ reply.outcome = "returned"
    /\ reply.active

(* a Number of hundredths read as its count of hundredths *)
Hundredths(fa) == FRound(FMulInt(fa, 100))

(* round(min(spend / limit * 100, 100), 2) in hundredths of a percent, on  *)
(* integers: halves round up                                               *)
RoundedPercentage(spend, limit) ==
    IF limit = 0 THEN 0
    ELSE IF spend >= limit THEN 10000
    ELSE (2 * spend * 10000 + limit) \div (2 * limit)

(* C14: a status request returns percentageUsed =                          *)
(* round(min(spend / limit * 100, 100), 2) when limit > 0 and 0 when       *)
(* limit = 0, a value within [0, 100]; compared in hundredths of a percent *)
C14_RoundedPercentage ==
    StatusComputed
    => /\ Hundredths(reply.status.percentageUsed) =
              RoundedPercentage(reply.spentCents, reply.limitCents)
       /\ Hundredths(reply.status.percentageUsed) \in 0..10000

(* ---------------- C15 ---------------- *)
(* the cents of a remaining amount: its sign and its hundredths of a dollar *)
RemainingCents(rem) == (IF rem.neg THEN -1 ELSE 1) * Hundredths(rem.abs)

(* C15: the status has remaining = limit - spend, negative when overspent, *)
(* and overBudget = (spend > limit), both on the unclamped spend although  *)
(* percentageUsed stops at 100; overBudget holds exactly when remaining is *)
(* negative.  Amounts compared in cents.                                   *)
C15_ClampAsymmetry ==
    StatusComputed
    => /\ RemainingCents(reply.status.remaining) = reply.limitCents - reply.spentCents
       /\ reply.status.overBudget = (reply.spentCents > reply.limitCents)
       /\ reply.status.overBudget = (reply.status.remaining.neg
                                     /\ ~FIsZero(reply.status.remaining.abs))
       /\ (reply.spentCents > reply.limitCents /\ reply.limitCents > 0)
             => Hundredths(reply.status.percentageUsed) = 10000

(* a status was returned for spend 150 and limit 100: over budget,         *)
(* remaining -50, percentageUsed 100                                       *)
C15_Witness ==
    /\ StatusComputed
    /\ reply.spentCents = 150 /\ reply.limitCents = 100
    /\ reply.status.overBudget
    /\ RemainingCents(reply.status.remaining) = -50
    /\ Hundredths(reply.status.percentageUsed) = 10000

(* ---------------- C16 ---------------- *)
(* a status request for an absent budget has thrown NotFoundException and  *)
(* returned no status                                                      *)
C16_NotFoundThrown ==
    (reply.op = "getBudgetStatusService" /\ budgets[reply.id] = NoDoc)
    => (reply.outcome = "NotFoundException" /\ reply.status = NoDoc)

(* a status request changes nothing but the answer to its caller *)
C16_NothingChanged ==
    (reply' # reply /\ reply'.op = "getBudgetStatusService")
    => UNCHANGED <<budgets, households, transactions, alerts, now, pc, loc,
                   sends, checks, failures, overlapped>>

(* C16: getBudgetStatusService on a budget id that does not exist throws   *)
(* NotFoundException, returns no status, and changes no state.             *)
C16_AbsentBudgetNotFound == []C16_NotFoundThrown /\ [][C16_NothingChanged]_vars

(* the status of the absent budget b4 was requested while the ledger held  *)
(* transactions                                                            *)
C16_Witness ==
    /\ reply.op = "getBudgetStatusService"
    /\ reply.id = "b4" /\ budgets["b4"] = NoDoc
    /\ reply.outcome = "NotFoundException"
    /\ transactions # EmptyBag

(* ---------------- C17 ---------------- *)
(* C17: checkBudgetThresholdsService on an absent budget id ends in a      *)
(* NotFound error outcome instead of returning, and creates no alert row.  *)
C17_AbsentBudgetSignalled ==
    \A p \in Procs :
        (pc[p] # "idle" /\ budgets[loc[p].budgetId] = NoDoc)
        => /\ pc[p] = "NotFoundException"
           /\ Len(alerts) = loc[p].firstRow

(* ---------------- C18 ---------------- *)
(* the status returned for an inactive budget: zero spend, remaining the   *)
(* limit, not over budget, zero percent                                    *)
C18_InactiveStatus ==
    ( /\ reply.op = "getBudgetStatusService" /\ reply.outcome = "returned"
      /\ ~budgets[reply.id].isActive )
    => /\ reply.status.totalSpentThisMonth = FZero
       /\ Hundredths(reply.status.budgetLimit) = budgets[reply.id].monthlyLimit
       /\ reply.status.remaining = [neg |-> FALSE, abs |-> reply.status.budgetLimit]
       /\ reply.status.overBudget = FALSE
       /\ reply.status.percentageUsed = FZero

(* a check of an inactive budget returns at its first step, having read no *)
(* spend, computed no percentage, made no send and written no row          *)
C18_InactiveCheck ==
    \A b \in BudgetIds :
        ( /\ budgets[b] # NoDoc /\ ~budgets[b].isActive
          /\ pc[1] = "idle" /\ pc'[1] # "idle" /\ loc'[1].budgetId = b )
        => /\ pc'[1] = "done"
           /\ loc'[1].metadata = NoDoc /\ loc'[1].dispatched = {}
           /\ alerts' = alerts /\ sends' = sends

(* C18: an inactive budget counts as zero spend whatever the transactions  *)
(* are: its status is totalSpent 0, remaining = limit, overBudget false,   *)
(* percentageUsed 0, and a check of it crosses no threshold, makes no send *)
(* and creates no alert row.                                               *)
C18_InactiveIsZero == []C18_InactiveStatus /\ [][C18_InactiveCheck]_vars

(* the owner of the inactive budget b3 has spent more than its limit this  *)
(* month; its status was returned and a check of it has finished           *)
C18_Witness ==
    /\ reply.op = "getBudgetStatusService" /\ reply.id = "b3"
    /\ reply.outcome = "returned"
    /\ reply.spentCents > reply.limitCents /\ reply.limitCents > 0
    /\ reply.spentCents = totalSpent(transactions, budgets["b3"], now)
    /\ pc[1] = "done" /\ loc[1].budgetId = "b3"

(* ---------------- C19 ---------------- *)
(* row i is owned by the requester and matches every filter the request    *)
(* supplied                                                                *)
MatchesRequest(i) ==
    /\ alerts[i].userId = reply.userId
    /\ reply.filters.budgetId # NoId => alerts[i].budgetId = reply.filters.budgetId
    /\ reply.filters.status # NoStatus => alerts[i].status = reply.filters.status
    /\ reply.filters.threshold # NoNumber => alerts[i].threshold = reply.filters.threshold

(* the number of rows of the ledger at the request, from row i on, that    *)
(* match the request                                                       *)
MatchingFrom(i) == Cardinality({ j \in i..reply.ledger : MatchesRequest(j) })

(* the page size of the request: its limit, 50 when it supplied none *)
PageSize == IF reply.filters.limit = NoNumber THEN 50 ELSE reply.filters.limit

(* C19: getUserAlertsService returns exactly the requester's rows that     *)
(* match every supplied filter, the row created last first, cut to the     *)
(* first `limit` rows, limit being 50 when none is supplied.               *)
C19_ListedRows ==
    reply.op = "getUserAlertsService"
    => /\ \A k \in 1..Len(reply.alerts) : MatchesRequest(reply.alerts[k])
       /\ \A k \in 1..(Len(reply.alerts) - 1) :
             /\ reply.alerts[k] > reply.alerts[k + 1]
             /\ alerts[reply.alerts[k]].createdAt >= alerts[reply.alerts[k + 1]].createdAt
       /\ \A i \in 1..reply.ledger :
             (\E k \in 1..Len(reply.alerts) : reply.alerts[k] = i)
             <=> (MatchesRequest(i) /\ MatchingFrom(i) <= PageSize)

(* ---------------- C20 ---------------- *)
(* the answer of markAlertAsReadService: the row when it exists and is the *)
(* requester's, else the error                                             *)
C20_ReturnedIffOwned ==
    reply.op = "markAlertAsReadService"
    => /\ reply.outcome = "returned"
            <=> ( /\ reply.alertId \in 1..reply.ledger
                  /\ alerts[reply.alertId].userId = reply.userId )
       /\ reply.outcome = "returned" => reply.alert = alerts[reply.alertId]
       /\ reply.outcome # "returned"
            => (reply.outcome = "Error: Alert not found" /\ reply.alert = NoDoc)

(* the request writes no row, whoever owns it *)
C20_LedgerUntouched ==
    (reply = NoReply /\ reply'.op = "markAlertAsReadService") => alerts' = alerts

(* C20: markAlertAsReadService returns the alert if and only if it exists  *)
(* and its recipient is the requester, and fails with a not-found error    *)
(* otherwise; in both outcomes no row of the ledger is changed.            *)
C20_OwnAlertOnly == []C20_ReturnedIffOwned /\ [][C20_LedgerUntouched]_vars

(* the alert of another recipient was asked for and refused *)
C20_Witness ==
    /\ reply.op = "markAlertAsReadService"
    /\ reply.alertId \in 1..reply.ledger
    /\ alerts[reply.alertId].userId # reply.userId
    /\ reply.outcome = "Error: Alert not found"
    /\ \E i \in 1..reply.ledger : alerts[i].userId = reply.userId

(* ---------------- C21 ---------------- *)
(* a step of one of the five services: a check or its sends move on, or a  *)
(* request is answered                                                     *)
ServiceStep ==
    pc' # pc \/ loc' # loc \/ sends' # sends \/ alerts' # alerts \/ reply' # reply

(* the step leaves the budgets, the households and the transactions alone *)
C21_Frame == ServiceStep => UNCHANGED <<budgets, households, transactions>>

(* the step keeps every row of the ledger as it is, in its place *)
C21_AppendOnly ==
    /\ Len(alerts') >= Len(alerts)
    /\ SubSeq(alerts', 1, Len(alerts)) = alerts

(* C21: the status request, the check, the sends, the alert list and the   *)
(* mark-as-read request leave every budget, household and transaction      *)
(* unchanged, and under them the ledger only grows at its end: no row is   *)
(* deleted and no field of a row changes.                                  *)
C21_CoreFrame == [][C21_Frame /\ C21_AppendOnly]_vars

(* a check has finished that wrote rows for two recipients after an        *)
(* expense was recorded, and a mark-as-read request has returned a row     *)
C21_Witness ==
    /\ Finished
    /\ Len(NewRows) >= 3
    /\ transactions # EmptyBag
    /\ reply.op = "markAlertAsReadService"
    /\ reply.outcome = "returned"

(* ---------------- C22 ---------------- *)
(* the last status request was for the budget of the running check and saw *)
(* the spend and the limit the check saw                                   *)
SameSnapshot ==
    /\ Running /\ loc[1].metadata # NoDoc
    /\ reply.op = "getBudgetStatusService" /\ reply.outcome = "returned"
    /\ reply.id = loc[1].budgetId
    /\ reply.spentCents = loc[1].totalSpentInCents
    /\ reply.limitCents = loc[1].budget.monthlyLimit

(* C22 as stated: the metadata of every row a check creates has the spend, *)
(* the limit and the percentageUsed that getBudgetStatusService reports    *)
(* for the same budget on the same transactions, also when the spend       *)
(* exceeds the limit.                                                      *)
C22_MetadataIsStatus ==
    SameSnapshot
    => \A i \in 1..Len(NewRows) :
          /\ NewRows[i].metadata.currentSpending = reply.status.totalSpentThisMonth
          /\ NewRows[i].metadata.budgetLimit = reply.status.budgetLimit
          /\ NewRows[i].metadata.percentageUsed = reply.status.percentageUsed

(* C22 amended: the metadata of every row a check creates is the check's   *)
(* own snapshot; its spend and limit are those getBudgetStatusService      *)
(* reports for the same budget on the same transactions, and its           *)
(* percentageUsed is the ratio before clamping and rounding: the reported  *)
(* percentageUsed is that value clamped to 100 and rounded to 2 decimals,  *)
(* and when the spend exceeds the limit the stored value is above 100      *)
(* while the reported one is 100.                                          *)
C22_MetadataIsUnclamped ==
    (SameSnapshot /\ Len(NewRows) > 0)
    => /\ \A i \in 1..Len(NewRows) : NewRows[i].metadata = loc[1].metadata
       /\ loc[1].metadata.currentSpending = reply.status.totalSpentThisMonth
       /\ loc[1].metadata.budgetLimit = reply.status.budgetLimit
       /\ reply.limitCents > 0
            => reply.status.percentageUsed =
                  roundedToHundredths(FMinInt(loc[1].metadata.percentageUsed, 100))
       /\ reply.spentCents > reply.limitCents
            => /\ FGT(loc[1].metadata.percentageUsed, reply.status.percentageUsed)
               /\ FGEInt(reply.status.percentageUsed, 100)
               /\ ~FGT(reply.status.percentageUsed, FInt(100))

(* rows were written at a spend above the limit and the status was asked   *)
(* for at that spend                                                       *)
C22_Witness ==
    /\ SameSnapshot
    /\ Len(NewRows) > 0
    /\ reply.spentCents > reply.limitCents

(* ---------------- C26 ---------------- *)
(* round(min(spend * 10000 / limit, 10000)), halves up, in integers *)
RoundedHundredths(spend, limit) ==
    IF spend >= limit THEN 10000
    ELSE (2 * spend * 10000 + limit) \div (2 * limit)

(* C26: for a limit above zero and every threshold T, the check treats T   *)
(* as crossed exactly when the percentageUsed that getBudgetStatusService  *)
(* reports for the same budget on the same transactions is at least T; in  *)
(* integers, spend * 100 >= T * limit exactly when                         *)
(* round(min(spend * 10000 / limit, 10000)) >= T * 100.                    *)
C26_StatusAgreesWithCheck ==
    (SameSnapshot /\ reply.limitCents > 0)
    => \A t \in AlertThresholdEnum :
          /\ thresholdReached(loc[1].metadata.percentageUsed, t)
                <=> FGEInt(reply.status.percentageUsed, t)
          /\ reply.spentCents * 100 >= t * reply.limitCents
                <=> RoundedHundredths(reply.spentCents, reply.limitCents) >= t * 100

(* ---------------- C27 ---------------- *)
(* the running check has sent a message marked as exceeded *)
ExceededSent ==
    \E i \in 1..Len(NewSends) : isOverBudget(NewSends[i].threshold, loc[1].metadata)

(* C27: whenever a check has dispatched a message marked as exceeded,      *)
(* getBudgetStatusService reports overBudget = true for the same budget on *)
(* the same transactions, also when the spend equals the limit.            *)
C27_ExceededOnlyWhenOver ==
    (SameSnapshot /\ ExceededSent) => reply.status.overBudget

(* ---------------- C28 ---------------- *)
(* no member joined the household of the row in the period of the row *)
RecipientsStable(row) ==
    row.householdId # NoId
    => \A k \in 1..Len(households[row.householdId].members) :
          \/ households[row.householdId].members[k].role = "OWNER"
          \/ households[row.householdId].members[k].joinedAt # row.createdAt

(* the rows of the running check come in ascending order of threshold *)
C28_AscendingInCheck ==
    Running => \A i, j \in 1..Len(NewRows) :
                  i < j => NewRows[i].threshold <= NewRows[j].threshold

(* C28 as stated: with limit and recipients unchanged in the period and    *)
(* checks that do not overlap, a row for a threshold created in a period   *)
(* has, for every lower threshold, a row of the budget created in that     *)
(* period no later than it; within a check the rows of a lower threshold   *)
(* come before those of a higher one.                                      *)
C28_AscendingInPeriod ==
    /\ C28_AscendingInCheck
    /\ \A i \in 1..Len(alerts) : \A t \in AlertThresholdEnum :
          (t < alerts[i].threshold /\ RecipientsStable(alerts[i]))
          => \E j \in 1..i :
                /\ alerts[j].budgetId = alerts[i].budgetId
                /\ alerts[j].threshold = t
                /\ alerts[j].createdAt = alerts[i].createdAt

(* C28 amended: with checks that do not overlap, when a check that is      *)
(* still in the period in which it started has written a row for a         *)
(* threshold, the ledger holds before that row, for every lower threshold, *)
(* a row of the budget created in that period; within a check the rows of  *)
(* a lower threshold come before those of a higher one.                    *)
C28_AscendingWithinPeriod ==
    /\ C28_AscendingInCheck
    /\ (Running /\ loc[1].monthStart = now)
       => \A i \in 1..Len(NewRows) : \A t \in AlertThresholdEnum :
             t < NewRows[i].threshold
             => \E j \in 1..(loc[1].firstRow + i) :
                   /\ alerts[j].budgetId = loc[1].budgetId
                   /\ alerts[j].threshold = t
                   /\ alerts[j].createdAt = now

(* a check that started in the current period has written a row for 100,   *)
(* the rows for 70 having been written by an earlier check of the period   *)
C28_Witness ==
    /\ Running /\ loc[1].monthStart = now
    /\ \E i \in 1..Len(NewRows) : NewRows[i].threshold = 100
    /\ \A i \in 1..Len(NewRows) : NewRows[i].threshold # 70
    /\ \E j \in 1..loc[1].firstRow :
          /\ alerts[j].budgetId = loc[1].budgetId
          /\ alerts[j].threshold = 70
          /\ alerts[j].createdAt = now

(* ---------------- C25 ---------------- *)
(* the percentage of the household budget, as its checks compute it, has   *)
(* reached t                                                               *)
StaysReached(t) ==
    thresholdReached(
        NumbersMemo[totalSpent(transactions, budgets[CoreBudget], now),
                    budgets[CoreBudget].monthlyLimit].percentageUsed, t)

(* u is a recipient of the household budget and has an address *)
ReachableRecipient(u) ==
    /\ \E k \in 1..Len(households["h1"].members) : households["h1"].members[k].userId = u
    /\ UserModel[u].email \/ UserModel[u].phoneNumber

(* the ledger holds a SENT row of the period for u, the budget and t *)
HasSentRow(u, t) ==
    \E i \in 1..Len(alerts) :
        /\ alerts[i].userId = u /\ alerts[i].budgetId = CoreBudget
        /\ alerts[i].threshold = t /\ alerts[i].status = "SENT"
        /\ alerts[i].createdAt = now

(* C25: within a period, while percentageUsed stays at or above T, checks  *)
(* keep being run and sends succeed when retried, every current recipient  *)
(* of the budget that has an address eventually has a SENT row for T; a    *)
(* recipient whose delivery failed while another's succeeded is retried by *)
(* a later check.                                                          *)
C25_EveryRecipientNotified ==
    \A t \in AlertThresholdEnum : \A u \in UserIds :
        (StaysReached(t) /\ ReachableRecipient(u)) ~> HasSentRow(u, t)

(* ---------------- C23 ---------------- *)
ScopeOk(budget) ==
    /\ budget.type = "USER" => (budget.userId # NoId /\ budget.householdId = NoId)
    /\ budget.type = "HOUSEHOLD" => (budget.householdId # NoId /\ budget.userId = NoId)

C23_Scope ==
    \A b \in BudgetIds : budgets[b] # NoDoc => ScopeOk(budgets[b])

OnlyLimitNameActive(before, after) ==
    /\ before # NoDoc
    /\ after # NoDoc
    /\ after.type = before.type
    /\ after.userId = before.userId
    /\ after.householdId = before.householdId

C23_UpdateFrame ==
    (reply = NoReply /\ reply' # NoReply /\ reply'.op = "updateBudgetService") =>
        \A b \in BudgetIds :
            \/ budgets'[b] = budgets[b]
            \/ b = reply'.id /\ OnlyLimitNameActive(budgets[b], budgets'[b])

(* C23: after any sequence of createBudgetService, updateBudgetService and *)
(* deleteBudgetService calls every stored USER budget has a userId and no  *)
(* householdId and every stored HOUSEHOLD budget has a householdId and no  *)
(* userId; updateBudgetService changes only monthlyLimit, name and         *)
(* isActive, of the budget it names.                                       *)
C23_ScopeInvariant == []C23_Scope /\ [][C23_UpdateFrame]_vars

(* a household budget made for a caller who also named a user, and then    *)
(* updated                                                                 *)
C23_Witness ==
    /\ reply # NoReply
    /\ reply.op = "updateBudgetService"
    /\ reply.outcome = "returned"
    /\ reply.id = NewBudgetId
    /\ reply.before.type = "HOUSEHOLD"
    /\ budgets[NewBudgetId] # reply.before

(* ---------------- C24 ---------------- *)
IsMember(household, u) ==
    \E k \in 1..Len(household.members) : household.members[k].userId = u

MembersOk(household) ==
    /\ Len(household.members) >= 1
    /\ \A j, k \in 1..Len(household.members) :
          household.members[j].userId = household.members[k].userId => j = k

C24_Households ==
    \A h \in DOMAIN households : households[h] # NoDoc => MembersOk(households[h])

C24_JoinStep ==
    (reply = NoReply /\ reply' # NoReply /\ reply'.op = "joinHouseholdService"
        /\ reply'.outcome = "returned") =>
        IF IsMember(households[reply'.id], reply'.userId)
        THEN households' = households
        ELSE households' = [households EXCEPT ![reply'.id].members =
                Append(@, [userId |-> reply'.userId, role |-> "MEMBER", joinedAt |-> now])]

C24_CreateStep ==
    (reply = NoReply /\ reply' # NoReply /\ reply'.op = "createHouseholdService") =>
        /\ Len(households'[reply'.id].members) = 1
        /\ households'[reply'.id].members[1].userId = reply'.userId
        /\ households'[reply'.id].members[1].role = "OWNER"
        /\ \A h \in DOMAIN households : h # reply'.id => households'[h] = households[h]

(* C24: after any sequence of createHouseholdService and                   *)
(* joinHouseholdService calls every household has at least one membership  *)
(* and no user twice among its members; a join by a user who is already a  *)
(* member leaves the household unchanged and a new joiner is appended with *)
(* role MEMBER.                                                            *)
C24_Membership == []C24_Households /\ [][C24_JoinStep /\ C24_CreateStep]_vars

(* the created household, joined by a second user, then joined again by a  *)
(* user who is already in it                                               *)
C24_Witness ==
    /\ reply # NoReply
    /\ reply.op = "joinHouseholdService"
    /\ reply.outcome = "returned"
    /\ reply.id = NewHouseholdId
    /\ reply.before = households[NewHouseholdId]
    /\ Len(households[NewHouseholdId].members) >= 2
    /\ \E k \in 1..Len(households[NewHouseholdId].members) :
          /\ households[NewHouseholdId].members[k].userId = reply.userId
          /\ households[NewHouseholdId].members[k].role = "MEMBER"

(* ---------------- C29 ---------------- *)
OwnedActiveUserBudget(budget, u) ==
    /\ budget # NoDoc
    /\ budget.type = "USER"
    /\ budget.userId = u
    /\ budget.isActive

(* C29: a request by user u to create a budget of type USER that passes    *)
(* createBudgetController's validator is accepted by createBudgetService   *)
(* and leaves a stored active USER budget owned by u; createBudgetService  *)
(* rejects a USER budget only when it is requested for a different user.   *)
C29_PersonalBudgetCreated ==
    (reply # NoReply /\ reply.op = "createBudgetController" /\ reply.input.type = "USER") =>
        /\ reply.outcome = "returned"
        /\ OwnedActiveUserBudget(budgets[reply.id], reply.userId)

(* ---------------- C30 ---------------- *)
RolesOf(h, u) ==
    IF h \in DOMAIN households /\ households[h] # NoDoc
    THEN { households[h].members[k].role :
              k \in { j \in 1..Len(households[h].members) :
                         households[h].members[j].userId = u } }
    ELSE {}

MayRead(budget, u) ==
    IF budget.type = "USER" THEN budget.userId = u
    ELSE RolesOf(budget.householdId, u) # {}

MayUpdate(budget, u) ==
    IF budget.type = "USER" THEN budget.userId = u
    ELSE RolesOf(budget.householdId, u) \cap {"OWNER", "MEMBER"} # {}

MayDelete(budget, u) ==
    IF budget.type = "USER" THEN budget.userId = u
    ELSE "OWNER" \in RolesOf(budget.householdId, u)

Permitted(op, budget, u) ==
    IF op = "getBudgetByIdService" THEN MayRead(budget, u)
    ELSE IF op = "updateBudgetService" THEN MayUpdate(budget, u)
    ELSE MayDelete(budget, u)

(* C30: getBudgetByIdService returns, updateBudgetService changes and      *)
(* deleteBudgetService removes a budget only for the owner of a USER       *)
(* budget or a member of the HOUSEHOLD budget's household, update of a     *)
(* HOUSEHOLD budget only for role OWNER or MEMBER and delete only for role *)
(* OWNER; every rejected call ends in an error and leaves the budget as it *)
(* was.                                                                    *)
C30_RoleBasedAccess ==
    (reply # NoReply
        /\ reply.op \in {"getBudgetByIdService", "updateBudgetService", "deleteBudgetService"}
        /\ reply.before # NoDoc) =>
        /\ reply.outcome = "returned" => Permitted(reply.op, reply.before, reply.userId)
        /\ budgets[reply.id] # reply.before => Permitted(reply.op, reply.before, reply.userId)
        /\ ~Permitted(reply.op, reply.before, reply.userId) =>
              reply.outcome \in {"BadRequestException", "NotFoundException"}
        /\ reply.outcome # "returned" => budgets[reply.id] = reply.before

(* the viewer of the household is refused an update of its budget, which   *)
(* stays as it was                                                         *)
C30_Witness ==
    /\ reply # NoReply
    /\ reply.op = "updateBudgetService"
    /\ reply.before # NoDoc
    /\ reply.before.type = "HOUSEHOLD"
    /\ RolesOf(reply.before.householdId, reply.userId) = {"VIEWER"}
    /\ reply.outcome = "BadRequestException"
    /\ budgets[reply.id] = reply.before

====
